---------------------------- MODULE Spec2Model ----------------------------
(***************************************************************************)
(* A model of aireo_lib: the training-dataset facades that map a global    *)
(* example index to an AOI and a local index (aireo_lib/core.py and the    *)
(* two pilot implementations CAP.py and SpaceNet7.py), the per-AOI         *)
(* windowed tile indexers of the pilots, and the bulk loader of the STAC   *)
(* catalog hierarchy, its incremental builder, its compliance calculator   *)
(* and its writer (aireo_lib/tds_stac_io.py).                              *)
(*                                                                         *)
(* Six specifications share the module:                                    *)
(*   SpecConstruct  core.EOTrainingDataset from the middle of __init__ on  *)
(*   SpecDataset    the three EOTrainingDataset facades over one AOI list  *)
(*   SpecWindow     AOIDatasetCAP / AOIDatasetSpaceNet over one raster     *)
(*   SpecLoad       DatasetSTACCatalog.from_TDSCatalog over one file tree  *)
(*   SpecBuild      one DatasetSTACCatalog object under its add_* methods, *)
(*                  the compliance calculator and the writer               *)
(*   SpecRoundTrip  a catalog loaded from a file tree, under the           *)
(*                  calculator and the writer, and loaded again            *)
(* A call is one action; what it returned or raised is recorded in the     *)
(* *_call variable of its specification.                                   *)
(***************************************************************************)
EXTENDS Integers, Sequences, FiniteSets, TLC

VARIABLES
    aoi_lens,                 \* get_length() / len() of each AOI dataset object, in aoi_ds_l order
    n_exs,                    \* core.EOTrainingDataset.n_exs
    tds_ex_idx_2_aoi_ex_idx,  \* core.EOTrainingDataset.tds_ex_idx_2_aoi_ex_idx
    lengths,                  \* CAP.EOTrainingDataset.lengths
    ds_call,                  \* the last facade call and its outcome
    init_pc,                  \* how far core.EOTrainingDataset.__init__ has come
    pre_process_calls,        \* the calls of core.EOTrainingDataset.pre_process so far
    shape,                    \* the raster of one pilot AOI dataset: [W, H, T]
    metadata,                 \* its metadata: [window_size, stride]
    win_call,                 \* the last per-AOI call and its outcome
    fs,                       \* the file tree the loader reads and the writer writes
    load_call,                \* the last from_TDSCatalog call and its outcome
    cat,                      \* one DatasetSTACCatalog object
    req,                      \* ext_to_metadata_req_info_d['aireo_tds_core']
    cat_call                  \* the last method call on cat and its outcome

vars == <<aoi_lens, n_exs, tds_ex_idx_2_aoi_ex_idx, lengths, ds_call, init_pc,
          pre_process_calls, shape, metadata, win_call, fs, load_call, cat, req, cat_call>>

dataset_vars == <<aoi_lens, n_exs, tds_ex_idx_2_aoi_ex_idx, lengths, ds_call, init_pc,
                  pre_process_calls>>
window_vars == <<shape, metadata, win_call>>
load_vars == <<fs, load_call>>
catalog_vars == <<cat, req, cat_call>>

(***************************************************************************)
(* Bounds of the model.                                                    *)
(***************************************************************************)
MaxAOI == 3
MaxLen == 3
MaxExtent == 5
MaxWindow == 3
MaxStride == 2
MaxT == 2

(***************************************************************************)
(* Python arithmetic.                                                      *)
(***************************************************************************)
Abs(a) == IF a < 0 THEN -a ELSE a

\* int(a / b): true division, then truncation toward zero (b # 0).
PyIntOfDiv(a, b) ==
    LET q == Abs(a) \div Abs(b)
    IN  IF (a < 0) # (b < 0) THEN -q ELSE q

\* a % b on Python ints: the result has the sign of b (b # 0).
PyMod(a, b) ==
    LET q == PyIntOfDiv(a, b)
        fl == IF q * b # a /\ ((a < 0) # (b < 0)) THEN q - 1 ELSE q
    IN  a - b * fl

(***************************************************************************)
(* core.EOTrainingDataset                                                  *)
(***************************************************************************)
NoCall == [op |-> "none", index |-> 0, outcome |-> "none", aoi |-> 0, local |-> 0]

Delegated(op, index, aoi_idx, aoi_ex_idx) ==
    [op |-> op, index |-> index, outcome |-> "delegated", aoi |-> aoi_idx, local |-> aoi_ex_idx]

Failed(op, index, error) ==
    [op |-> op, index |-> index, outcome |-> error, aoi |-> 0, local |-> 0]

\* get_length() of the AOI dataset at (0-based) aoi_idx
AoiLength(lens, aoi_idx) == lens[aoi_idx + 1]

\* aoi_2_tds_start_idx[k]: n_exs after the first k iterations of the first loop
RECURSIVE aoi_2_tds_start_idx(_, _)
aoi_2_tds_start_idx(lens, k) ==
    IF k = 0 THEN 0
    ELSE aoi_2_tds_start_idx(lens, k - 1) + AoiLength(lens, k - 1)

\* the entries one AOI writes into the map (the inner loop over np.arange)
IndexMapMutantNoOffset(m, aoi_idx, aoi_tds_ex_idx_start, aoi_tds_ex_idx_end) ==
    [tds_ex_idx \in DOMAIN m |->
        IF aoi_tds_ex_idx_start <= tds_ex_idx /\ tds_ex_idx < aoi_tds_ex_idx_end
        THEN <<aoi_idx, tds_ex_idx>>
        ELSE m[tds_ex_idx]]

FillAoiEntries(m, aoi_idx, aoi_tds_ex_idx_start, aoi_tds_ex_idx_end) ==
    [tds_ex_idx \in DOMAIN m |->
        IF aoi_tds_ex_idx_start <= tds_ex_idx /\ tds_ex_idx < aoi_tds_ex_idx_end
        THEN <<aoi_idx, tds_ex_idx - aoi_tds_ex_idx_start>>
        ELSE m[tds_ex_idx]]

\* the second loop of __compute_ds_length, from aoi_idx on
RECURSIVE FillIndexMap(_, _, _)
FillIndexMap(m, lens, aoi_idx) ==
    IF aoi_idx >= Len(lens) THEN m
    ELSE FillIndexMap(
            FillAoiEntries(m, aoi_idx,
                           aoi_2_tds_start_idx(lens, aoi_idx),
                           aoi_2_tds_start_idx(lens, aoi_idx + 1)),
            lens, aoi_idx + 1)

\* __compute_ds_length: the returned n_exs and the map it stores
ComputeDsLength(lens) ==
    LET n == aoi_2_tds_start_idx(lens, Len(lens))
    IN  [n_exs |-> n,
         map |-> FillIndexMap([i \in 0 .. n - 1 |-> <<-1, -1>>], lens, 0)]

\* a numpy array of length n indexed by an integer: the position read, or -1 for IndexError
NumpyIndex(n, i) ==
    IF 0 <= i /\ i < n THEN i
    ELSE IF -n <= i /\ i < 0 THEN n + i
    ELSE -1

CoreGetItemResult(op, ex_index) ==
    LET pos == NumpyIndex(n_exs, ex_index)
    IN  IF pos = -1 THEN Failed(op, ex_index, "IndexError")
        ELSE Delegated(op, ex_index,
                       tds_ex_idx_2_aoi_ex_idx[pos][1], tds_ex_idx_2_aoi_ex_idx[pos][2])

MaxTotal == MaxAOI * MaxLen
IndexRange == -(MaxTotal + 1) .. (MaxTotal + 1)

CoreGetItem(ex_index) ==
    /\ ds_call' = CoreGetItemResult("core.__getitem__", ex_index)
    /\ UNCHANGED <<aoi_lens, n_exs, tds_ex_idx_2_aoi_ex_idx, lengths>>
    /\ UNCHANGED <<init_pc, pre_process_calls>>
    /\ UNCHANGED <<window_vars, load_vars, catalog_vars>>

CoreGetExample(index) ==
    /\ ds_call' = CoreGetItemResult("core.get_example", index)
    /\ UNCHANGED <<aoi_lens, n_exs, tds_ex_idx_2_aoi_ex_idx, lengths>>
    /\ UNCHANGED <<init_pc, pre_process_calls>>
    /\ UNCHANGED <<window_vars, load_vars, catalog_vars>>

\* get_subset: get_example of every index in turn; the first exception leaves the call
CoreGetSubsetResult(index_arr) ==
    LET each == [k \in DOMAIN index_arr |-> CoreGetItemResult("core.get_example", index_arr[k])]
        failing == {k \in DOMAIN index_arr : each[k].outcome # "delegated"}
    IN  [op |-> "core.get_subset", index |-> index_arr,
         outcome |-> IF failing = {} THEN "delegated"
                     ELSE each[CHOOSE k \in failing : \A j \in failing : k <= j].outcome,
         aoi |-> IF failing = {} THEN [k \in DOMAIN index_arr |-> each[k].aoi] ELSE <<>>,
         local |-> IF failing = {} THEN [k \in DOMAIN index_arr |-> each[k].local] ELSE <<>>]

CoreGetSubset(index_arr) ==
    /\ ds_call' = CoreGetSubsetResult(index_arr)
    /\ UNCHANGED <<aoi_lens, n_exs, tds_ex_idx_2_aoi_ex_idx, lengths>>
    /\ UNCHANGED <<init_pc, pre_process_calls>>
    /\ UNCHANGED <<window_vars, load_vars, catalog_vars>>

\* __init__, line 64: self.n_exs = self.__compute_ds_length(), which also stores the map
CoreInitComputeDsLength ==
    /\ init_pc = "aoi_ds_l"
    /\ n_exs' = ComputeDsLength(aoi_lens).n_exs
    /\ tds_ex_idx_2_aoi_ex_idx' = ComputeDsLength(aoi_lens).map
    /\ init_pc' = "n_exs"
    /\ UNCHANGED <<aoi_lens, lengths, ds_call, pre_process_calls>>
    /\ UNCHANGED <<window_vars, load_vars, catalog_vars>>

\* a constructor that returns without the call of line 67
InitMutantSkipsPreProcess ==
    /\ init_pc = "n_exs"
    /\ init_pc' = "returned"
    /\ UNCHANGED <<aoi_lens, n_exs, tds_ex_idx_2_aoi_ex_idx, lengths, ds_call>>
    /\ UNCHANGED pre_process_calls
    /\ UNCHANGED <<window_vars, load_vars, catalog_vars>>

\* __init__, line 67: self.pre_process(), whose body is pass; then __init__ returns
CoreInitPreProcess ==
    /\ init_pc = "n_exs"
    /\ pre_process_calls' = pre_process_calls + 1
    /\ init_pc' = "returned"
    /\ UNCHANGED <<aoi_lens, n_exs, tds_ex_idx_2_aoi_ex_idx, lengths, ds_call>>
    /\ UNCHANGED <<window_vars, load_vars, catalog_vars>>


(***************************************************************************)
(* CAP.EOTrainingDataset                                                   *)
(***************************************************************************)
\* __init__: lengths[k] is the running sum of len(obj) after AOI k (0-based)
CapLengths(lens) == [k \in 1 .. Len(lens) |-> aoi_2_tds_start_idx(lens, k)]

\* the loop of __getitem__ from position idx on; loc is bound exactly when found
RECURSIVE CapLocate(_, _, _, _)
CapLocate(ls, index, idx, st) ==
    IF idx >= Len(ls) THEN st
    ELSE LET length == ls[idx + 1]
             nxt == IF length > index /\ ~st.found /\ idx = 0
                        THEN [found |-> TRUE, loc |-> 0]
                    ELSE IF length > index /\ ~st.found
                        THEN [found |-> TRUE, loc |-> idx - 1]
                    ELSE IF length = index /\ ~st.found
                        THEN [found |-> TRUE, loc |-> idx]
                    ELSE st
         IN  CapLocate(ls, index, idx + 1, nxt)

CapGetItemResult(index) ==
    LET st == CapLocate(lengths, index, 0, [found |-> FALSE, loc |-> 0])
    IN  IF ~st.found THEN Failed("cap.__getitem__", index, "UnboundLocalError")
        ELSE Delegated("cap.__getitem__", index, st.loc, index - lengths[st.loc + 1])

CapGetItem(index) ==
    /\ ds_call' = CapGetItemResult(index)
    /\ UNCHANGED <<aoi_lens, n_exs, tds_ex_idx_2_aoi_ex_idx, lengths>>
    /\ UNCHANGED <<init_pc, pre_process_calls>>
    /\ UNCHANGED <<window_vars, load_vars, catalog_vars>>

(***************************************************************************)
(* SpaceNet7.EOTrainingDataset                                             *)
(***************************************************************************)
\* __len__: the sum of len(obj) over aoi_objs
SnFacadeLen(lens) == aoi_2_tds_start_idx(lens, Len(lens))

\* the while loop of __getitem__ from (counter, AOI_index) on
RECURSIVE SnLocate(_, _, _, _)
SnLocate(lens, index, counter, AOI_index) ==
    IF ~(counter < SnFacadeLen(lens)) THEN Failed("sn.__getitem__", index, "None")
    ELSE IF index < AoiLength(lens, AOI_index) + counter
         THEN Delegated("sn.__getitem__", index, AOI_index, index - counter)
         ELSE SnLocate(lens, index, counter + AoiLength(lens, AOI_index), AOI_index + 1)

SnGetItemResult(index) ==
    IF index > SnFacadeLen(aoi_lens) THEN Failed("sn.__getitem__", index, "SystemExit")
    ELSE SnLocate(aoi_lens, index, 0, 0)

SnGetItem(index) ==
    /\ ds_call' = SnGetItemResult(index)
    /\ UNCHANGED <<aoi_lens, n_exs, tds_ex_idx_2_aoi_ex_idx, lengths>>
    /\ UNCHANGED <<init_pc, pre_process_calls>>
    /\ UNCHANGED <<window_vars, load_vars, catalog_vars>>

(***************************************************************************)
(* Pilot per-AOI datasets: AOIDatasetCAP and AOIDatasetSpaceNet            *)
(***************************************************************************)
\* AOIDatasetSpaceNet.__init__ (SpaceNet7.py:16-34) opens the two arrays into
\* locals and then reads self.feature_data, which it never assigns; the methods
\* below are modelled on an object whose feature_data is the opened array of
\* shape (T, bands, W, H) and whose timesteps are its T dates.
NoWinCall ==
    [op |-> "none", index |-> 0, outcome |-> "none", value |-> 0,
     x1 |-> 0, y1 |-> 0, x2 |-> 0, y2 |-> 0, timestep |-> 0]

WinLen(op, value) == [NoWinCall EXCEPT !.op = op, !.outcome = "returned", !.value = value]

WinFailed(op, index, error) == [NoWinCall EXCEPT !.op = op, !.index = index, !.outcome = error]

Window(op, index, x1, y1, window_size, timestep) ==
    [op |-> op, index |-> index, outcome |-> "window", value |-> 0,
     x1 |-> x1, y1 |-> y1, x2 |-> x1 + window_size, y2 |-> y1 + window_size,
     timestep |-> timestep]

\* int((extent - window_size) / stride), as floor division would give it
AlongMutantFloor(extent, window_size, stride) == (extent - window_size) \div stride

\* int((extent - window_size) / stride)
CapAlong(extent, window_size, stride) == PyIntOfDiv(extent - window_size, stride)

\* AOIDatasetCAP.__len__
CapLenValue(sh, md) ==
    CapAlong(sh.W, md.window_size, md.stride) * CapAlong(sh.H, md.window_size, md.stride)

\* AOIDatasetCAP.__getitem__
CapWindowResult(sh, md, index) ==
    LET along_x == CapAlong(sh.W, md.window_size, md.stride)
        along_y == CapAlong(sh.H, md.window_size, md.stride)
    IN  IF along_x = 0 \/ along_y = 0
        THEN WinFailed("AOIDatasetCAP.__getitem__", index, "ZeroDivisionError")
        ELSE Window("AOIDatasetCAP.__getitem__", index,
                    md.stride * PyMod(index, along_x),
                    md.stride * PyIntOfDiv(index, along_y),
                    md.window_size, 0)

\* int((extent - window_size) / stride) + 1
SnCeiling(extent, window_size, stride) == PyIntOfDiv(extent - window_size, stride) + 1

\* AOIDatasetSpaceNet.__len__: feature_data[0] needs a first timestep
SnLenResult(sh, md) ==
    IF sh.T = 0 THEN WinFailed("AOIDatasetSpaceNet.__len__", 0, "IndexError")
    ELSE WinLen("AOIDatasetSpaceNet.__len__",
                sh.T * (SnCeiling(sh.W, md.window_size, md.stride)
                        * SnCeiling(sh.H, md.window_size, md.stride)))

\* AOIDatasetSpaceNet.__getitem__; len(self) refuses a negative __len__
SnWindowResult(sh, md, index) ==
    LET op == "AOIDatasetSpaceNet.__getitem__"
        len == SnLenResult(sh, md)
        x1_ceiling == SnCeiling(sh.W, md.window_size, md.stride)
        y1_ceiling == SnCeiling(sh.H, md.window_size, md.stride)
        single_image_examples == x1_ceiling * y1_ceiling
        timestep == PyIntOfDiv(index, single_image_examples)
        image_index == index - timestep * single_image_examples
    IN  IF len.outcome # "returned" THEN WinFailed(op, index, len.outcome)
        ELSE IF len.value < 0 THEN WinFailed(op, index, "ValueError")
        ELSE IF index >= len.value THEN WinFailed(op, index, "SystemExit")
        ELSE IF single_image_examples = 0 THEN WinFailed(op, index, "ZeroDivisionError")
        ELSE IF NumpyIndex(sh.T, timestep) = -1 THEN WinFailed(op, index, "IndexError")
        ELSE Window(op, index,
                    md.stride * PyMod(image_index, x1_ceiling),
                    md.stride * PyIntOfDiv(image_index, x1_ceiling),
                    md.window_size, timestep)

MaxWinIndex == 10
WinIndexRange == -MaxWinIndex .. MaxWinIndex

CapLen ==
    /\ win_call' = WinLen("AOIDatasetCAP.__len__", CapLenValue(shape, metadata))
    /\ UNCHANGED <<shape, metadata>>
    /\ UNCHANGED <<dataset_vars, load_vars, catalog_vars>>

CapAoiGetItem(index) ==
    /\ win_call' = CapWindowResult(shape, metadata, index)
    /\ UNCHANGED <<shape, metadata>>
    /\ UNCHANGED <<dataset_vars, load_vars, catalog_vars>>

SnLen ==
    /\ win_call' = SnLenResult(shape, metadata)
    /\ UNCHANGED <<shape, metadata>>
    /\ UNCHANGED <<dataset_vars, load_vars, catalog_vars>>

SnAoiGetItem(index) ==
    /\ win_call' = SnWindowResult(shape, metadata, index)
    /\ UNCHANGED <<shape, metadata>>
    /\ UNCHANGED <<dataset_vars, load_vars, catalog_vars>>

(***************************************************************************)
(* Initial states and specifications of the two index components.         *)
(***************************************************************************)
\* all sequences over S of length at most n
SeqUpTo(S, n) == UNION {[1 .. k -> S] : k \in 0 .. n}

IdleDataset ==
    /\ aoi_lens = <<>>
    /\ n_exs = 0
    /\ tds_ex_idx_2_aoi_ex_idx = <<>>
    /\ lengths = <<>>
    /\ ds_call = NoCall
    /\ init_pc = "returned"
    /\ pre_process_calls = 1

IdleWindow ==
    /\ shape = [W |-> 0, H |-> 0, T |-> 0]
    /\ metadata = [window_size |-> 1, stride |-> 1]
    /\ win_call = NoWinCall

\* the facades right after __init__ over AOI datasets of the given lengths
InitDataset ==
    /\ aoi_lens \in SeqUpTo(0 .. MaxLen, MaxAOI)
    /\ n_exs = ComputeDsLength(aoi_lens).n_exs
    /\ tds_ex_idx_2_aoi_ex_idx = ComputeDsLength(aoi_lens).map
    /\ lengths = CapLengths(aoi_lens)
    /\ ds_call = NoCall
    /\ init_pc = "returned"
    /\ pre_process_calls = 1

NextDataset ==
    \/ \E i \in IndexRange : CoreGetItem(i)
    \/ \E i \in IndexRange : CoreGetExample(i)
    \/ \E i \in IndexRange : CapGetItem(i)
    \/ \E i \in IndexRange : SnGetItem(i)

\* core.EOTrainingDataset.__init__ after its AOI datasets are made (lines 55-61):
\* n_exs and the map are not assigned yet, and nothing reads them before they are
InitConstruct ==
    /\ aoi_lens \in SeqUpTo(0 .. MaxLen, MaxAOI)
    /\ n_exs = 0
    /\ tds_ex_idx_2_aoi_ex_idx = <<>>
    /\ lengths = <<>>
    /\ ds_call = NoCall
    /\ init_pc = "aoi_ds_l"
    /\ pre_process_calls = 0

\* the index arrays get_subset is called with
MaxSubset == 2
AccessIndexes == {-1, 0, n_exs - 1, n_exs}
SubsetChoices == SeqUpTo(AccessIndexes, MaxSubset)

\* the object is at hand for a call once __init__ has returned
NextConstruct ==
    \/ CoreInitComputeDsLength
    \/ CoreInitPreProcess
    \/ init_pc = "returned" /\ \E i \in AccessIndexes : CoreGetItem(i)
    \/ init_pc = "returned" /\ \E i \in AccessIndexes : CoreGetExample(i)
    \/ init_pc = "returned" /\ \E index_arr \in SubsetChoices : CoreGetSubset(index_arr)

Rasters ==
    ((0 .. MaxExtent) \X (0 .. MaxExtent) \X (1 .. MaxWindow) \X (1 .. MaxStride))
        \cup {<<356, 356, 256, 26>>}

InitWindow ==
    /\ \E r \in Rasters, t \in 0 .. MaxT :
          /\ shape = [W |-> r[1], H |-> r[2], T |-> t]
          /\ metadata = [window_size |-> r[3], stride |-> r[4]]
    /\ win_call = NoWinCall

NextWindow ==
    \/ CapLen
    \/ \E i \in WinIndexRange : CapAoiGetItem(i)
    \/ SnLen
    \/ \E i \in WinIndexRange : SnAoiGetItem(i)

(***************************************************************************)
(* tds_stac_io: strings, paths and files                                   *)
(*                                                                         *)
(* A relation string is a sequence of characters, so that startswith and   *)
(* split work on it as str does.  A path is the sequence of its            *)
(* components; an href is a path with Path.is_absolute().  A file holds a  *)
(* JSON document (a record, as json.load returns a dict) or raster data.   *)
(***************************************************************************)
S_metadata == <<"m", "e", "t", "a", "d", "a", "t", "a">>
S_features == <<"f", "e", "a", "t", "u", "r", "e", "s">>
S_references == <<"r", "e", "f", "e", "r", "e", "n", "c", "e", "s">>
S_count == <<"c", "o", "u", "n", "t">>
S_index == <<"i", "n", "d", "e", "x">>
S_labels == <<"l", "a", "b", "e", "l", "s">>
S_child == <<"c", "h", "i", "l", "d">>
S_self == <<"s", "e", "l", "f">>
S_root == <<"r", "o", "o", "t">>
S_parent == <<"p", "a", "r", "e", "n", "t">>

None == [none |-> TRUE]

Ok(v) == [err |-> "none", val |-> v]
Raise(e) == [err |-> e, val |-> None]

\* str.startswith(prefix)
StartsWith(s, prefix) == Len(s) >= Len(prefix) /\ SubSeq(s, 1, Len(prefix)) = prefix

\* str.split('/')
RECURSIVE Split(_)
Split(s) ==
    LET at == {i \in 1 .. Len(s) : s[i] = "/"}
    IN  IF at = {} THEN <<s>>
        ELSE LET i == CHOOSE j \in at : \A k \in at : j <= k
             IN  <<SubSeq(s, 1, i - 1)>> \o Split(SubSeq(s, i + 1, Len(s)))

\* 'a' + '/' + 'b' + ...
RECURSIVE JoinSlash(_)
JoinSlash(toks) ==
    IF Len(toks) = 1 THEN toks[1]
    ELSE toks[1] \o <<"/">> \o JoinSlash(Tail(toks))

\* an href: Path(href).is_absolute() and the components of Path(href), in which
\* pathlib leaves no '.' component
RelHref(path) == [abs |-> FALSE, path |-> path]
AbsHref(path) == [abs |-> TRUE, path |-> path]
Link(rel, href) == [rel |-> rel, href |-> href]

\* a file of JSON text, a file of other content, a directory
JsonFile(doc) == [kind |-> "json", doc |-> doc]
DataFile(content) == [kind |-> "data", doc |-> content]
Dir == [kind |-> "dir", doc |-> <<>>]

\* Path.exists(): a file, a directory made by mkdir, or the directory of a file
Exists(files, path) ==
    \/ path = <<>>
    \/ path \in DOMAIN files
    \/ \E q \in DOMAIN files : Len(q) > Len(path) /\ SubSeq(q, 1, Len(path)) = path

\* Path.is_file()
IsFile(files, path) == path \in DOMAIN files /\ files[path].kind # "dir"

\* Path(...).parent
Parent(path) == SubSeq(path, 1, Len(path) - 1)

\* Path(href), made absolute against folder unless is_absolute()
ResolveHref(folder, href) == IF href.abs THEN href.path ELSE folder \o href.path

\* open(path) and json.load
ReadJson(files, path) ==
    IF ~Exists(files, path) THEN Raise("FileNotFoundError")
    ELSE IF ~IsFile(files, path) THEN Raise("IsADirectoryError")
    ELSE IF files[path].kind # "json" THEN Raise("JSONDecodeError")
    ELSE Ok(files[path].doc)

\* dict[key] = value
DictSet(d, key, value) ==
    [k \in DOMAIN d \cup {key} |-> IF k = key THEN value ELSE d[k]]

(***************************************************************************)
(* tds_stac_io: the records of the catalog tree                            *)
(***************************************************************************)
FieldProfileInfo(fn_path, metadata_d, data_asset_w_path, data_asset_info_d) ==
    [fn_path |-> fn_path, metadata_d |-> metadata_d,
     data_asset_w_path |-> data_asset_w_path, data_asset_info_d |-> data_asset_info_d]

AllFieldMetadata(features, references) == [features |-> features, references |-> references]

TDSRootCtlInfo(fn_path, tds_root_metadata_d, g_all_field_metadata) ==
    [fn_path |-> fn_path, tds_root_metadata_d |-> tds_root_metadata_d,
     g_all_field_metadata |-> g_all_field_metadata]

AOICollectionInfo(fn_path, aoi_collection_metadata_d, aoi_all_field_metadata) ==
    [fn_path |-> fn_path, aoi_collection_metadata_d |-> aoi_collection_metadata_d,
     aoi_all_field_metadata |-> aoi_all_field_metadata]

\* hasattr(FieldSchema, field_type): the two fields, and what a NamedTuple class
\* has besides them (the tuple methods count and index among them)
HasAttrFieldSchema(field_type) ==
    field_type \in {S_features, S_references, S_count, S_index}

\* exec('all_field_metadata.<field_type>["<field_name>"] = field_profile_info'):
\* only the two dictionaries take an item
SetFieldMetadata(all_field_metadata, field_type, field_name, field_profile_info) ==
    IF field_type = S_features
    THEN Ok([all_field_metadata EXCEPT
                !.features = DictSet(@, field_name, field_profile_info)])
    ELSE IF field_type = S_references
    THEN Ok([all_field_metadata EXCEPT
                !.references = DictSet(@, field_name, field_profile_info)])
    ELSE Raise("TypeError")

\* FieldSchema(**field_schema_d)
FieldSchemaOf(field_schema_d) ==
    IF DOMAIN field_schema_d = {"features", "references"}
    THEN Ok([features |-> field_schema_d.features, references |-> field_schema_d.references])
    ELSE Raise("TypeError")

(***************************************************************************)
(* tds_stac_io: the validate_* functions.  Each builds a pydantic model    *)
(* from the dictionary and answers False when that raises.  A document is  *)
(* a record; the check modelled is the one the classes of stac_extensions  *)
(* declare: the keys without default that must be there, the enumerations  *)
(* of tasks and compliance_level, and the two keys of field_schema.        *)
(***************************************************************************)
Tasks ==
    {"regression", "classification", "detection",
     "Semantic Segmentation", "Instance Segmentation"}

ComplianceLevel == {"level 1", "level 2", "level 3"}

\* AIREOTDSCatalog(**tds_dict) does not raise
AIREOTDSCatalog(tds_dict) ==
    /\ {"id", "stac_version", "links", "description", "license", "type", "tasks",
        "data_preprocessing", "field_schema", "example_definition",
        "compliance_level"} \subseteq DOMAIN tds_dict
    /\ DOMAIN tds_dict.field_schema = {"features", "references"}
    /\ \A i \in DOMAIN tds_dict.tasks : tds_dict.tasks[i] \in Tasks
    /\ tds_dict.compliance_level \in ComplianceLevel

\* AOICollection(**aoi_dict) does not raise
AOICollection(aoi_dict) ==
    {"id", "stac_version", "links", "description", "license", "extent", "geometry"}
        \subseteq DOMAIN aoi_dict

\* Item(**profile_dict) does not raise and validate_item(profile_dict) is True
Item(profile_dict) ==
    {"id", "type", "geometry", "properties", "links", "assets"} \subseteq DOMAIN profile_dict

validate_tds_root_dict(tds_dict) == AIREOTDSCatalog(tds_dict)

validate_aoi_dict(aoi_dict) == AOICollection(aoi_dict)

validate_global_profile_dict(g_profile_dict) == Item(g_profile_dict)

validate_aoi_profile_dict(aoi_profile_dict) == Item(aoi_profile_dict)

(***************************************************************************)
(* DatasetSTACCatalog.from_TDSCatalog                                      *)
(***************************************************************************)
\* __parse_root_tds_ctl_info
ParseRootTdsCtlInfo(files, tds_ctl_path) ==
    LET f == ReadJson(files, tds_ctl_path)
    IN  IF f.err # "none" THEN f
        ELSE Ok(TDSRootCtlInfo(tds_ctl_path, f.val, None))

\* __parse_g_profile_info: the body of the loop, for one link
ParseGLink(files, root_ctl_abs_folder, link, all_field_metadata) ==
    IF ~StartsWith(link.rel, S_metadata) THEN Ok(all_field_metadata)
    ELSE LET toks == Split(link.rel)
         IN  IF Len(toks) # 3 THEN Raise("ValueError")
             ELSE LET field_type == toks[2]
                      field_name == toks[3]
                      profile_path == ResolveHref(root_ctl_abs_folder, link.href)
                      f == ReadJson(files, profile_path)
                  IN  IF f.err # "none" THEN f
                      ELSE IF ~HasAttrFieldSchema(field_type) THEN Raise("Exception")
                      ELSE SetFieldMetadata(all_field_metadata, field_type, field_name,
                                            FieldProfileInfo(profile_path, f.val, None, None))

RECURSIVE ParseGLinks(_, _, _, _, _)
ParseGLinks(files, folder, links, i, all_field_metadata) ==
    IF i > Len(links) THEN Ok(all_field_metadata)
    ELSE LET r == ParseGLink(files, folder, links[i], all_field_metadata)
         IN  IF r.err # "none" THEN r
             ELSE ParseGLinks(files, folder, links, i + 1, r.val)

\* __parse_g_profile_info
ParseGProfileInfo(files, tds_root_ctl_info) ==
    LET d == tds_root_ctl_info.tds_root_metadata_d
    IN  IF "field_schema" \notin DOMAIN d THEN Raise("KeyError")
        ELSE IF FieldSchemaOf(d.field_schema).err # "none" THEN FieldSchemaOf(d.field_schema)
        ELSE IF "links" \notin DOMAIN d THEN Raise("TypeError")
        ELSE ParseGLinks(files, Parent(tds_root_ctl_info.fn_path), d.links, 1,
                         AllFieldMetadata(<<>>, <<>>))

\* a loader that takes an AOI profile with any number of assets: the first
\* asset when there is one, none otherwise
ParseAoiLinkMutantAnyAssetCount(files, aoi_collection_abs_folder, link, all_field_metadata) ==
    IF ~StartsWith(link.rel, S_metadata) THEN Ok(all_field_metadata)
    ELSE LET toks == Split(link.rel)
         IN  IF Len(toks) # 3 THEN Raise("ValueError")
             ELSE LET field_type == toks[2]
                      field_name == toks[3]
                      profile_path == ResolveHref(aoi_collection_abs_folder, link.href)
                      f == ReadJson(files, profile_path)
                  IN  IF f.err # "none" THEN f
                      ELSE IF ~HasAttrFieldSchema(field_type) THEN Raise("Exception")
                      ELSE IF "assets" \notin DOMAIN f.val THEN Raise("KeyError")
                      ELSE IF DOMAIN f.val.assets = {}
                      THEN SetFieldMetadata(all_field_metadata, field_type, field_name,
                                            FieldProfileInfo(profile_path, f.val, None, None))
                      ELSE LET data_asset_name == CHOOSE n \in DOMAIN f.val.assets : TRUE
                               data_asset_info_d == f.val.assets[data_asset_name]
                               data_asset_path ==
                                   ResolveHref(aoi_collection_abs_folder, data_asset_info_d.href)
                           IN  IF ~data_asset_info_d.href.abs /\ ~IsFile(files, data_asset_path)
                               THEN Raise("Exception")
                               ELSE SetFieldMetadata(all_field_metadata, field_type, field_name,
                                        FieldProfileInfo(profile_path, f.val,
                                                         data_asset_path, data_asset_info_d))

\* __parse_aoi_profile_info: the body of the loop, for one link
ParseAoiLink(files, aoi_collection_abs_folder, link, all_field_metadata) ==
    IF ~StartsWith(link.rel, S_metadata) THEN Ok(all_field_metadata)
    ELSE LET toks == Split(link.rel)
         IN  IF Len(toks) # 3 THEN Raise("ValueError")
             ELSE LET field_type == toks[2]
                      field_name == toks[3]
                      profile_path == ResolveHref(aoi_collection_abs_folder, link.href)
                      f == ReadJson(files, profile_path)
                  IN  IF f.err # "none" THEN f
                      ELSE IF ~HasAttrFieldSchema(field_type) THEN Raise("Exception")
                      ELSE IF "assets" \notin DOMAIN f.val THEN Raise("KeyError")
                      ELSE IF Cardinality(DOMAIN f.val.assets) # 1 THEN Raise("Exception")
                      ELSE LET data_asset_name == CHOOSE n \in DOMAIN f.val.assets : TRUE
                               data_asset_info_d == f.val.assets[data_asset_name]
                               data_asset_path ==
                                   ResolveHref(aoi_collection_abs_folder, data_asset_info_d.href)
                           IN  IF ~data_asset_info_d.href.abs /\ ~IsFile(files, data_asset_path)
                               THEN Raise("Exception")
                               ELSE SetFieldMetadata(all_field_metadata, field_type, field_name,
                                        FieldProfileInfo(profile_path, f.val,
                                                         data_asset_path, data_asset_info_d))

RECURSIVE ParseAoiLinks(_, _, _, _, _)
ParseAoiLinks(files, folder, links, i, all_field_metadata) ==
    IF i > Len(links) THEN Ok(all_field_metadata)
    ELSE LET r == ParseAoiLink(files, folder, links[i], all_field_metadata)
         IN  IF r.err # "none" THEN r
             ELSE ParseAoiLinks(files, folder, links, i + 1, r.val)

\* __parse_aoi_profile_info
ParseAoiProfileInfo(files, aoi_collection_info, tds_root_ctl_info) ==
    LET d == aoi_collection_info.aoi_collection_metadata_d
        schema == FieldSchemaOf(tds_root_ctl_info.tds_root_metadata_d.field_schema)
    IN  IF schema.err # "none" THEN schema
        ELSE IF "links" \notin DOMAIN d THEN Raise("TypeError")
        ELSE ParseAoiLinks(files, Parent(aoi_collection_info.fn_path), d.links, 1,
                           AllFieldMetadata(<<>>, <<>>))

\* a loader that leaves out a child whose document cannot be read
ChildLinkMutantSkipUnreadable(files, root_ctl_abs_folder, link, aoi_collection_info_l) ==
    IF link.rel # S_child THEN Ok(aoi_collection_info_l)
    ELSE LET aoi_f_path == ResolveHref(root_ctl_abs_folder, link.href)
             f == ReadJson(files, aoi_f_path)
         IN  IF f.err # "none" THEN Ok(aoi_collection_info_l)
             ELSE Ok(Append(aoi_collection_info_l, AOICollectionInfo(aoi_f_path, f.val, None)))

\* __parse_aoi_subcollection_info: the body of the loop, for one link
ParseChildLink(files, root_ctl_abs_folder, link, aoi_collection_info_l) ==
    IF link.rel # S_child THEN Ok(aoi_collection_info_l)
    ELSE LET aoi_f_path == ResolveHref(root_ctl_abs_folder, link.href)
             f == ReadJson(files, aoi_f_path)
         IN  IF ~link.href.abs /\ ~IsFile(files, aoi_f_path) THEN Raise("Exception")
             ELSE IF f.err # "none" THEN f
             ELSE Ok(Append(aoi_collection_info_l, AOICollectionInfo(aoi_f_path, f.val, None)))

RECURSIVE ParseChildLinks(_, _, _, _, _)
ParseChildLinks(files, folder, links, i, aoi_collection_info_l) ==
    IF i > Len(links) THEN Ok(aoi_collection_info_l)
    ELSE LET r == ParseChildLink(files, folder, links[i], aoi_collection_info_l)
         IN  IF r.err # "none" THEN r
             ELSE ParseChildLinks(files, folder, links, i + 1, r.val)

\* __parse_aoi_subcollection_info
ParseAoiSubcollectionInfo(files, tds_root_ctl_info) ==
    LET d == tds_root_ctl_info.tds_root_metadata_d
    IN  IF "links" \notin DOMAIN d THEN Raise("TypeError")
        ELSE ParseChildLinks(files, Parent(tds_root_ctl_info.fn_path), d.links, 1, <<>>)

\* the loop of from_TDSCatalog over aoi_collection_info_l, from position i on
RECURSIVE ParseAllAoiProfiles(_, _, _, _)
ParseAllAoiProfiles(files, aoi_collection_info_l, tds_root_ctl_info, i) ==
    IF i > Len(aoi_collection_info_l) THEN Ok(aoi_collection_info_l)
    ELSE LET r == ParseAoiProfileInfo(files, aoi_collection_info_l[i], tds_root_ctl_info)
         IN  IF r.err # "none" THEN r
             ELSE ParseAllAoiProfiles(
                     files,
                     [aoi_collection_info_l EXCEPT ![i].aoi_all_field_metadata = r.val],
                     tds_root_ctl_info, i + 1)

\* DatasetSTACCatalog() after __init__
NewCatalog ==
    [valid_tds_root |-> FALSE, valid_tds |-> FALSE, valid_field_schema |-> FALSE,
     field_schema |-> None, tds_ctl_root_info |-> None, aoi_collection_info_l |-> <<>>]

\* from_TDSCatalog: Ok(the DatasetSTACCatalog object) or the exception that leaves it
FromTDSCatalog(files, tds_catalog_path) ==
    LET root == ParseRootTdsCtlInfo(files, tds_catalog_path)
    IN  IF root.err # "none" THEN root
        ELSE
        LET g == ParseGProfileInfo(files, root.val)
        IN  IF g.err # "none" THEN g
            ELSE
            LET tds_ctl_root_info == [root.val EXCEPT !.g_all_field_metadata = g.val]
                schema == FieldSchemaOf(tds_ctl_root_info.tds_root_metadata_d.field_schema)
                aois == ParseAoiSubcollectionInfo(files, tds_ctl_root_info)
            IN  IF schema.err # "none" THEN schema
                ELSE IF aois.err # "none" THEN aois
                ELSE
                LET filled == ParseAllAoiProfiles(files, aois.val, tds_ctl_root_info, 1)
                IN  IF filled.err # "none" THEN filled
                    ELSE Ok([NewCatalog EXCEPT
                                !.tds_ctl_root_info = tds_ctl_root_info,
                                !.valid_tds_root = TRUE,
                                !.field_schema = schema.val,
                                !.valid_field_schema = TRUE,
                                !.aoi_collection_info_l = filled.val,
                                !.valid_tds = TRUE])

\* logged: what the call reported through logger besides its result;
\* from_TDSCatalog and the __parse_* functions it runs never call logger
NoLoadCall ==
    [op |-> "none", path |-> <<>>, outcome |-> "none", error |-> "none", catalog |-> None,
     logged |-> <<>>]

LoadResult(tds_catalog_path) ==
    LET r == FromTDSCatalog(fs, tds_catalog_path)
    IN  [op |-> "from_TDSCatalog", path |-> tds_catalog_path,
         outcome |-> IF r.err = "none" THEN "returned" ELSE "raised",
         error |-> r.err, catalog |-> r.val, logged |-> <<>>]

LoadCatalog(tds_catalog_path) ==
    /\ load_call' = LoadResult(tds_catalog_path)
    /\ UNCHANGED fs
    /\ UNCHANGED <<dataset_vars, window_vars, catalog_vars>>


(***************************************************************************)
(* DatasetSTACCatalog: the incremental builder.  A method call leaves the  *)
(* exception it raised (or "none"), the object as the call left it and the *)
(* value it returned.  A dictionary of profiles, of asset paths or of file *)
(* paths is a function on field names, walked in the order of NameOrder;   *)
(* an optional dictionary is NoDict (None) or SomeDict(d).                 *)
(***************************************************************************)
Returned(self, val) == [err |-> "none", self |-> self, val |-> val]
Raised(self, e) == [err |-> e, self |-> self, val |-> None]

NoDict == [is_none |-> TRUE, d |-> <<>>]
SomeDict(d) == [is_none |-> FALSE, d |-> d]

\* 'if d:' of an optional dictionary
Truthy(opt) == ~opt.is_none /\ DOMAIN opt.d # {}

\* opt[key] of an optional dictionary
Subscript(opt, key) ==
    IF opt.is_none THEN Raise("TypeError")
    ELSE IF key \notin DOMAIN opt.d THEN Raise("KeyError")
    ELSE Ok(opt.d[key])

NameOrder == <<<<"a">>, <<"b">>, <<"x">>>>

\* the keys of a dictionary in iteration order
KeysOf(d) == SelectSeq(NameOrder, LAMBDA n : n \in DOMAIN d)

\* the path '' that a profile built without a path dictionary gets
EmptyPath == <<>>

\* add_field_schema
AddFieldSchema(self, field_schema_d) ==
    LET schema == FieldSchemaOf(field_schema_d)
    IN  IF schema.err # "none" THEN Raised(self, schema.err)
        ELSE Returned([self EXCEPT !.field_schema = schema.val,
                                   !.valid_field_schema = TRUE], None)

\* add_tds_root_metadata, lines 423-437: the FieldProfileInfo of every feature
RECURSIVE RootFeatureProfiles(_, _, _, _, _)
RootFeatureProfiles(keys, i, g_feature_metadata_d, g_feature_profile_path_d, acc) ==
    IF i > Len(keys) THEN Ok(acc)
    ELSE LET eo_feature == keys[i]
         IN  IF Truthy(g_feature_profile_path_d)
                /\ eo_feature \notin DOMAIN g_feature_profile_path_d.d
             THEN Raise("Exception")
             ELSE LET feature_fn_path ==
                          IF Truthy(g_feature_profile_path_d)
                          THEN g_feature_profile_path_d.d[eo_feature]
                          ELSE EmptyPath
                  IN  RootFeatureProfiles(
                         keys, i + 1, g_feature_metadata_d, g_feature_profile_path_d,
                         DictSet(acc, eo_feature,
                                 FieldProfileInfo(feature_fn_path,
                                                  g_feature_metadata_d[eo_feature],
                                                  None, None)))

\* add_tds_root_metadata, lines 439-453: the FieldProfileInfo of every reference;
\* its path is read from g_feature_profile_path_d at eo_feature, the variable the
\* loop over the features left behind
RECURSIVE RootRefProfiles(_, _, _, _, _, _, _)
RootRefProfiles(keys, i, g_ref_data_metadata_d, g_ref_data_profile_path_d, g_feature_profile_path_d, eo_feature, acc) ==
    IF i > Len(keys) THEN Ok(acc)
    ELSE LET ref_data == keys[i]
             looked_up == Subscript(g_feature_profile_path_d, eo_feature)
         IN  IF Truthy(g_ref_data_profile_path_d)
                /\ ref_data \notin DOMAIN g_ref_data_profile_path_d.d
             THEN Raise("Exception")
             ELSE IF Truthy(g_ref_data_profile_path_d) /\ looked_up.err # "none"
             THEN looked_up
             ELSE LET ref_data_fn_path ==
                          IF Truthy(g_ref_data_profile_path_d) THEN looked_up.val
                          ELSE EmptyPath
                  IN  RootRefProfiles(
                         keys, i + 1, g_ref_data_metadata_d, g_ref_data_profile_path_d,
                         g_feature_profile_path_d, eo_feature,
                         DictSet(acc, ref_data,
                                 FieldProfileInfo(ref_data_fn_path,
                                                  g_ref_data_metadata_d[ref_data],
                                                  None, None)))

\* add_tds_root_metadata
AddTdsRootMetadata(self, core_metatdata_d, g_feature_metadata_d, g_ref_data_metadata_d, tds_root_path, g_feature_profile_path_d, g_ref_data_profile_path_d) ==
    LET self1 == [self EXCEPT !.valid_tds_root = FALSE]
        core == DictSet(DictSet(core_metatdata_d, "links", <<>>), "assets", <<>>)
    IN  IF ~validate_tds_root_dict(core) THEN Returned(self1, FALSE)
        ELSE
        LET self2 == AddFieldSchema(self1, core.field_schema).self
            feature_keys == KeysOf(g_feature_metadata_d)
            ref_keys == KeysOf(g_ref_data_metadata_d)
        IN  \* lines 412-415: the first feature profile that does not validate
            IF \E n \in DOMAIN g_feature_metadata_d :
                  ~validate_global_profile_dict(g_feature_metadata_d[n])
            THEN Returned(self2, FALSE)
            \* lines 417-421: the loop over the references tests
            \* valid_eo_feature_profile, which is unbound when there was no feature
            \* and True otherwise
            ELSE IF ref_keys # <<>> /\ feature_keys = <<>>
            THEN Raised(self2, "UnboundLocalError")
            ELSE
            LET features == RootFeatureProfiles(feature_keys, 1, g_feature_metadata_d,
                                                g_feature_profile_path_d, <<>>)
            IN  IF features.err # "none" THEN Raised(self2, features.err)
                ELSE
                LET references ==
                        IF ref_keys = <<>> THEN Ok(<<>>)
                        ELSE RootRefProfiles(ref_keys, 1, g_ref_data_metadata_d,
                                             g_ref_data_profile_path_d,
                                             g_feature_profile_path_d,
                                             feature_keys[Len(feature_keys)], <<>>)
                IN  IF references.err # "none" THEN Raised(self2, references.err)
                    ELSE Returned([self2 EXCEPT
                            !.tds_ctl_root_info =
                                TDSRootCtlInfo(tds_root_path, core,
                                    AllFieldMetadata(features.val, references.val)),
                            !.valid_tds_root = TRUE], TRUE)

\* add_aoi_metadata, lines 518-537: the FieldProfileInfo of every feature
RECURSIVE AoiFeatureProfiles(_, _, _, _, _, _)
AoiFeatureProfiles(keys, i, aoi_feature_metadata_d, aoi_feature_asset_path_d, aoi_feature_profile_path_d, acc) ==
    IF i > Len(keys) THEN Ok(acc)
    ELSE LET eo_feature == keys[i]
         IN  IF Truthy(aoi_feature_profile_path_d)
                /\ eo_feature \notin DOMAIN aoi_feature_profile_path_d.d
             THEN Raise("Exception")
             ELSE IF eo_feature \notin DOMAIN aoi_feature_asset_path_d
             THEN Raise("KeyError")
             ELSE LET feature_fn_path ==
                          IF Truthy(aoi_feature_profile_path_d)
                          THEN aoi_feature_profile_path_d.d[eo_feature]
                          ELSE EmptyPath
                  IN  AoiFeatureProfiles(
                         keys, i + 1, aoi_feature_metadata_d, aoi_feature_asset_path_d,
                         aoi_feature_profile_path_d,
                         DictSet(acc, eo_feature,
                                 FieldProfileInfo(feature_fn_path,
                                                  aoi_feature_metadata_d[eo_feature],
                                                  aoi_feature_asset_path_d[eo_feature],
                                                  None)))

\* add_aoi_metadata, lines 539-559: the FieldProfileInfo of every reference; its
\* path is read from aoi_feature_profile_path_d
RECURSIVE AoiRefProfiles(_, _, _, _, _, _, _)
AoiRefProfiles(keys, i, aoi_ref_data_metadata_d, aoi_ref_data_asset_path_d, aoi_ref_data_profile_path_d, aoi_feature_profile_path_d, acc) ==
    IF i > Len(keys) THEN Ok(acc)
    ELSE LET reference_data == keys[i]
             looked_up == Subscript(aoi_feature_profile_path_d, reference_data)
         IN  IF Truthy(aoi_ref_data_profile_path_d)
                /\ reference_data \notin DOMAIN aoi_ref_data_profile_path_d.d
             THEN Raise("Exception")
             ELSE IF Truthy(aoi_ref_data_profile_path_d) /\ looked_up.err # "none"
             THEN looked_up
             ELSE IF reference_data \notin DOMAIN aoi_ref_data_asset_path_d
             THEN Raise("KeyError")
             ELSE LET ref_data_fn_path ==
                          IF Truthy(aoi_ref_data_profile_path_d) THEN looked_up.val
                          ELSE EmptyPath
                  IN  AoiRefProfiles(
                         keys, i + 1, aoi_ref_data_metadata_d, aoi_ref_data_asset_path_d,
                         aoi_ref_data_profile_path_d, aoi_feature_profile_path_d,
                         DictSet(acc, reference_data,
                                 FieldProfileInfo(ref_data_fn_path,
                                                  aoi_ref_data_metadata_d[reference_data],
                                                  aoi_ref_data_asset_path_d[reference_data],
                                                  None)))

\* add_aoi_metadata
AddAoiMetadata(self, aoi_metadata_d, aoi_feature_metadata_d, aoi_ref_data_metadata_d, aoi_feature_asset_path_d, aoi_ref_data_asset_path_d, aoi_fn_path, aoi_feature_profile_path_d, aoi_ref_data_profile_path_d) ==
    LET aoi == DictSet(DictSet(aoi_metadata_d, "links", <<>>), "assets", <<>>)
    IN  IF ~validate_aoi_dict(aoi) THEN Returned(self, FALSE)
        ELSE IF \E n \in DOMAIN aoi_feature_metadata_d :
                  ~validate_aoi_profile_dict(aoi_feature_metadata_d[n])
        THEN Returned(self, FALSE)
        ELSE IF \E n \in DOMAIN aoi_ref_data_metadata_d :
                  ~validate_aoi_profile_dict(aoi_ref_data_metadata_d[n])
        THEN Returned(self, FALSE)
        ELSE
        LET features == AoiFeatureProfiles(KeysOf(aoi_feature_metadata_d), 1,
                                           aoi_feature_metadata_d, aoi_feature_asset_path_d,
                                           aoi_feature_profile_path_d, <<>>)
        IN  IF features.err # "none" THEN Raised(self, features.err)
            ELSE
            LET references == AoiRefProfiles(KeysOf(aoi_ref_data_metadata_d), 1,
                                             aoi_ref_data_metadata_d,
                                             aoi_ref_data_asset_path_d,
                                             aoi_ref_data_profile_path_d,
                                             aoi_feature_profile_path_d, <<>>)
            IN  IF references.err # "none" THEN Raised(self, references.err)
                ELSE
                LET aoi_collection_info ==
                        AOICollectionInfo(aoi_fn_path, aoi,
                                          AllFieldMetadata(features.val, references.val))
                    appended == [self EXCEPT !.aoi_collection_info_l =
                                                 Append(@, aoi_collection_info)]
                IN  Returned(IF appended.valid_tds_root /\ appended.valid_field_schema
                             THEN [appended EXCEPT !.valid_tds = TRUE]
                             ELSE appended,
                             TRUE)

(***************************************************************************)
(* DatasetSTACCatalog: compliance level and metadata completeness          *)
(***************************************************************************)
\* len(a) / len(b) as a float: the quotient num / den
Fraction(num, den) == [num |-> num, den |-> den]

\* a compliance level computed without looking at the optional tier at level 2
ComplianceMutantIgnoresOptional(self, tds_core_metadata_req_info) ==
    IF ~self.valid_tds THEN Raised(self, "AssertionError")
    ELSE IF self.tds_ctl_root_info = None THEN Raised(self, "AttributeError")
    ELSE
    LET available_root_metadata == DOMAIN self.tds_ctl_root_info.tds_root_metadata_d
        common_root_recommended_metadata ==
            available_root_metadata \cap tds_core_metadata_req_info.recommended_metadata_set
    IN  Returned(self,
                 IF Cardinality(common_root_recommended_metadata)
                       = Cardinality(tds_core_metadata_req_info.recommended_metadata_set)
                 THEN 3 ELSE 1)

\* compute_compliance_level
ComputeComplianceLevel(self, tds_core_metadata_req_info) ==
    IF ~self.valid_tds THEN Raised(self, "AssertionError")
    ELSE IF self.tds_ctl_root_info = None THEN Raised(self, "AttributeError")
    ELSE
    LET available_root_metadata == DOMAIN self.tds_ctl_root_info.tds_root_metadata_d
        common_root_recommended_metadata ==
            available_root_metadata \cap tds_core_metadata_req_info.recommended_metadata_set
        common_root_optional_metadata ==
            available_root_metadata \cap tds_core_metadata_req_info.optional_metadata_set
        level_2 == Cardinality(common_root_recommended_metadata)
                      = Cardinality(tds_core_metadata_req_info.recommended_metadata_set)
        level_3 == level_2
                   /\ Cardinality(common_root_optional_metadata)
                         = Cardinality(tds_core_metadata_req_info.optional_metadata_set)
    IN  Returned(self, IF level_3 THEN 3 ELSE IF level_2 THEN 2 ELSE 1)

\* a report that does not start with assert self.valid_tds
ReportMutantNoAssert(self, tds_core_metadata_req_info) ==
    IF self.tds_ctl_root_info = None THEN Raised(self, "AttributeError")
    ELSE
    LET available_root_metadata == DOMAIN self.tds_ctl_root_info.tds_root_metadata_d
        common_root_required_metadata ==
            available_root_metadata \cap tds_core_metadata_req_info.required_metadata_set
        common_root_recommended_metadata ==
            available_root_metadata \cap tds_core_metadata_req_info.recommended_metadata_set
        common_root_optional_metadata ==
            available_root_metadata \cap tds_core_metadata_req_info.optional_metadata_set
    IN  IF tds_core_metadata_req_info.required_metadata_set = {}
           \/ tds_core_metadata_req_info.recommended_metadata_set = {}
           \/ tds_core_metadata_req_info.optional_metadata_set = {}
        THEN Raised(self, "ZeroDivisionError")
        ELSE Returned(self,
                [tds_core_metadata |->
                    [required_metadata |->
                         Fraction(Cardinality(common_root_required_metadata),
                                  Cardinality(tds_core_metadata_req_info.required_metadata_set)),
                     recommended_metadata |->
                         Fraction(Cardinality(common_root_recommended_metadata),
                                  Cardinality(tds_core_metadata_req_info.recommended_metadata_set)),
                     optional_metadata |->
                         Fraction(Cardinality(common_root_optional_metadata),
                                  Cardinality(tds_core_metadata_req_info.optional_metadata_set))]])

\* report_metadata_completeness
ReportMetadataCompleteness(self, tds_core_metadata_req_info) ==
    IF ~self.valid_tds THEN Raised(self, "AssertionError")
    ELSE IF self.tds_ctl_root_info = None THEN Raised(self, "AttributeError")
    ELSE
    LET available_root_metadata == DOMAIN self.tds_ctl_root_info.tds_root_metadata_d
        common_root_required_metadata ==
            available_root_metadata \cap tds_core_metadata_req_info.required_metadata_set
        common_root_recommended_metadata ==
            available_root_metadata \cap tds_core_metadata_req_info.recommended_metadata_set
        common_root_optional_metadata ==
            available_root_metadata \cap tds_core_metadata_req_info.optional_metadata_set
    IN  IF tds_core_metadata_req_info.required_metadata_set = {}
           \/ tds_core_metadata_req_info.recommended_metadata_set = {}
           \/ tds_core_metadata_req_info.optional_metadata_set = {}
        THEN Raised(self, "ZeroDivisionError")
        ELSE Returned(self,
                [tds_core_metadata |->
                    [required_metadata |->
                         Fraction(Cardinality(common_root_required_metadata),
                                  Cardinality(tds_core_metadata_req_info.required_metadata_set)),
                     recommended_metadata |->
                         Fraction(Cardinality(common_root_recommended_metadata),
                                  Cardinality(tds_core_metadata_req_info.recommended_metadata_set)),
                     optional_metadata |->
                         Fraction(Cardinality(common_root_optional_metadata),
                                  Cardinality(tds_core_metadata_req_info.optional_metadata_set))]])

(***************************************************************************)
(* DatasetSTACCatalog.write_TDS_STAC_Catalog.  The call is a sequence of   *)
(* steps over [err, self, files]: the exception raised so far, the object  *)
(* (whose dictionaries the writer updates in place) and the file tree.  A  *)
(* step after an exception does nothing: what the call leaves behind is    *)
(* what was done before it.                                                *)
(***************************************************************************)
Written(err, self, files) == [err |-> err, self |-> self, files |-> files]

\* the state between two steps; files_root is tds_catalog_root_folder
WriteStep(err, self, files, files_root) ==
    [err |-> err, self |-> self, files |-> files, files_root |-> files_root]

\* Path.mkdir(parents=True)
Mkdir(files, path) ==
    IF Exists(files, path) THEN Raise("FileExistsError")
    ELSE Ok(DictSet(files, path, Dir))

\* shutil.copyfile(src, dst)
CopyFile(files, src, dst) ==
    IF ~Exists(files, src) THEN Raise("FileNotFoundError")
    ELSE IF ~IsFile(files, src) THEN Raise("IsADirectoryError")
    ELSE IF src = dst THEN Raise("SameFileError")
    ELSE Ok(DictSet(files, dst, files[src]))

\* 'feature_' + name + '.json', 'reference_data_' + name + '.json', id + '.json'
ProfileFn(field_type, name) ==
    IF field_type = "features"
    THEN CASE name = <<"a">> -> "feature_a.json"
           [] name = <<"b">> -> "feature_b.json"
           [] name = <<"x">> -> "feature_x.json"
    ELSE CASE name = <<"a">> -> "reference_data_a.json"
           [] name = <<"b">> -> "reference_data_b.json"
           [] name = <<"x">> -> "reference_data_x.json"

IdFn(id) ==
    CASE id = "aoi1" -> "aoi1.json"
      [] id = "aoi2" -> "aoi2.json"

\* 'metadata/features/' + name, 'metadata/references/' + name
MetadataRel(field_type, name) ==
    JoinSlash(<<S_metadata, IF field_type = "features" THEN S_features ELSE S_references,
                name>>)

WLink(rel, href, type) == [rel |-> rel, href |-> href, type |-> type]

\* write_datasheet: the sections of datasheet.md, or the exception of a missing key
Datasheet(core_metadata_d) ==
    LET has(k) == k \in DOMAIN core_metadata_d
        opt(k) == IF has(k) THEN <<k>> ELSE <<>>
        schema == core_metadata_d.field_schema
    IN  IF ~has("title") \/ ~has("description") \/ ~has("tasks") THEN Raise("KeyError")
        ELSE IF Len(core_metadata_d.tasks) = 0 THEN Raise("IndexError")
        ELSE IF ~has("data_preprocessing") \/ ~has("field_schema") THEN Raise("KeyError")
        ELSE IF "features" \notin DOMAIN schema THEN Raise("KeyError")
        ELSE IF \E n \in DOMAIN schema.features : Len(schema.features[n]) = 0
        THEN Raise("IndexError")
        ELSE IF "references" \notin DOMAIN schema THEN Raise("KeyError")
        ELSE IF \E n \in DOMAIN schema.references : Len(schema.references[n]) = 0
        THEN Raise("IndexError")
        ELSE IF ~has("example_definition") THEN Raise("KeyError")
        ELSE Ok(<<"title", "description">> \o opt("purpose") \o <<"tasks">>
                \o opt("funding_info") \o opt("collection_mechanism")
                \o <<"data_preprocessing", "field_schema", "example_definition">>
                \o opt("dataset_split") \o opt("data_completeness") \o opt("data_sharing"))

\* lines 770 and 659-714: open(datasheet.md, 'w') makes the file, then the text is
\* put together and written
WriteDatasheet(w, root_folder) ==
    IF w.err # "none" THEN w
    ELSE LET sheet == Datasheet(w.self.tds_ctl_root_info.tds_root_metadata_d)
             path == root_folder \o <<"datasheet.md">>
         IN  IF sheet.err # "none"
             THEN [w EXCEPT !.err = sheet.err, !.files = DictSet(@, path, DataFile(<<>>))]
             ELSE [w EXCEPT !.files = DictSet(@, path, DataFile(sheet.val))]

\* lines 775-843: the link and the profile file of every field of one type of
\* the schema, at the root
RECURSIVE WriteGlobalProfiles(_, _, _, _, _, _)
WriteGlobalProfiles(w, root_folder, root_fn, field_type, keys, i) ==
    IF w.err # "none" \/ i > Len(keys) THEN w
    ELSE
    LET name == keys[i]
        profile_fn == ProfileFn(field_type, name)
        link == WLink(MetadataRel(field_type, name), RelHref(<<profile_fn>>),
                      "application/geo+json")
        self1 == [w.self EXCEPT !.tds_ctl_root_info.tds_root_metadata_d.links =
                                    Append(@, link)]
        g == self1.tds_ctl_root_info.g_all_field_metadata
    IN  IF g = None THEN [w EXCEPT !.err = "AttributeError", !.self = self1]
        ELSE IF name \notin DOMAIN g[field_type]
        THEN [w EXCEPT !.err = "KeyError", !.self = self1]
        ELSE
        LET links == <<WLink(S_self, RelHref(<<profile_fn>>), "application/json"),
                       WLink(S_parent, RelHref(<<root_fn>>), "application/json"),
                       WLink(S_root, RelHref(<<root_fn>>), "application/json")>>
            metadata_d == DictSet(g[field_type][name].metadata_d, "links", links)
            self2 == [self1 EXCEPT
                         !.tds_ctl_root_info.g_all_field_metadata[field_type][name].metadata_d
                             = metadata_d]
        IN  WriteGlobalProfiles(
               [w EXCEPT !.self = self2,
                         !.files = DictSet(@, root_folder \o <<profile_fn>>,
                                           JsonFile(metadata_d))],
               root_folder, root_fn, field_type, keys, i + 1)

\* generate_aoi_collection_json_dict: the links of the AOI document
AoiCollectionLinks(aoi_collection_info, root_fn) ==
    LET aoi_collection_fn == IdFn(aoi_collection_info.aoi_collection_metadata_d.id)
        all == aoi_collection_info.aoi_all_field_metadata
        profile_link(field_type, name) ==
            WLink(MetadataRel(field_type, name), RelHref(<<ProfileFn(field_type, name)>>),
                  "application/geo+json")
        feature_keys == KeysOf(all.features)
        reference_keys == KeysOf(all.references)
    IN  <<WLink(S_root, RelHref(<<"..", root_fn>>), "application/json"),
          WLink(S_parent, RelHref(<<"..", root_fn>>), "application/json"),
          WLink(S_self, RelHref(<<aoi_collection_fn>>), "application/json")>>
        \o [k \in 1 .. Len(feature_keys) |-> profile_link("features", feature_keys[k])]
        \o [k \in 1 .. Len(reference_keys) |-> profile_link("references", reference_keys[k])]

\* lines 871-957: the profile file and the copied asset of every field of one
\* type of the schema, for the AOI at position a
RECURSIVE WriteAoiProfiles(_, _, _, _, _, _)
WriteAoiProfiles(w, a, root_fn, field_type, keys, i) ==
    IF w.err # "none" \/ i > Len(keys) THEN w
    ELSE
    LET name == keys[i]
        aoi_collection_info == w.self.aoi_collection_info_l[a]
        aoi_collection_id == aoi_collection_info.aoi_collection_metadata_d.id
        aoi_collection_folder == w.files_root \o <<aoi_collection_id>>
        profiles == aoi_collection_info.aoi_all_field_metadata[field_type]
    IN  IF name \notin DOMAIN profiles THEN [w EXCEPT !.err = "KeyError"]
        ELSE
        LET profile_fn == ProfileFn(field_type, name)
            links == <<WLink(S_self, RelHref(<<profile_fn>>), "application/geo+json"),
                       WLink(S_parent, RelHref(<<IdFn(aoi_collection_id)>>), "application/json"),
                       WLink(S_root, RelHref(<<"..", root_fn>>), "application/json")>>
            with_links == DictSet(profiles[name].metadata_d, "links", links)
            self1 == [w.self EXCEPT
                         !.aoi_collection_info_l[a].aoi_all_field_metadata[field_type][name]
                              .metadata_d = with_links]
            orig_asset_path == profiles[name].data_asset_w_path
            asset_fn == orig_asset_path[Len(orig_asset_path)]
            copied == CopyFile(w.files, orig_asset_path, aoi_collection_folder \o <<asset_fn>>)
        IN  IF copied.err # "none" THEN [w EXCEPT !.err = copied.err, !.self = self1]
            ELSE
            LET metadata_d ==
                    DictSet(with_links, "assets",
                            "data" :> [href |-> RelHref(<<asset_fn>>), roles |-> "data"])
                self2 == [self1 EXCEPT
                             !.aoi_collection_info_l[a].aoi_all_field_metadata[field_type][name]
                                  .metadata_d = metadata_d]
            IN  WriteAoiProfiles(
                   [w EXCEPT !.self = self2,
                             !.files = DictSet(copied.val,
                                               aoi_collection_folder \o <<profile_fn>>,
                                               JsonFile(metadata_d))],
                   a, root_fn, field_type, keys, i + 1)

\* lines 848-957: the sub-directory, the child link, the document and the
\* profiles of every AOI, from position a on
RECURSIVE WriteAois(_, _, _)
WriteAois(w, a, root_fn) ==
    IF w.err # "none" \/ a > Len(w.self.aoi_collection_info_l) THEN w
    ELSE
    LET aoi_collection_info == w.self.aoi_collection_info_l[a]
        aoi_d == aoi_collection_info.aoi_collection_metadata_d
    IN  IF "id" \notin DOMAIN aoi_d THEN [w EXCEPT !.err = "TypeError"]
        ELSE
        LET aoi_collection_folder == w.files_root \o <<aoi_d.id>>
            made == Mkdir(w.files, aoi_collection_folder)
        IN  IF made.err # "none" THEN [w EXCEPT !.err = made.err]
            ELSE
            LET child == WLink(S_child, RelHref(<<aoi_d.id, IdFn(aoi_d.id)>>),
                               "application/json")
                self1 == [w.self EXCEPT
                             !.tds_ctl_root_info.tds_root_metadata_d.links = Append(@, child)]
            IN  IF aoi_collection_info.aoi_all_field_metadata = None
                THEN [w EXCEPT !.err = "AttributeError", !.self = self1, !.files = made.val]
                ELSE
                LET aoi_collection_metadata_d ==
                        DictSet(aoi_d, "links", AoiCollectionLinks(aoi_collection_info, root_fn))
                    self2 == [self1 EXCEPT
                                 !.aoi_collection_info_l[a].aoi_collection_metadata_d =
                                     aoi_collection_metadata_d]
                    w1 == [w EXCEPT
                              !.self = self2,
                              !.files = DictSet(made.val,
                                                aoi_collection_folder \o <<IdFn(aoi_d.id)>>,
                                                JsonFile(aoi_collection_metadata_d))]
                    w2 == WriteAoiProfiles(w1, a, root_fn, "features",
                                           KeysOf(w.self.field_schema.features), 1)
                    w3 == WriteAoiProfiles(w2, a, root_fn, "references",
                                           KeysOf(w.self.field_schema.references), 1)
                IN  WriteAois(w3, a + 1, root_fn)

\* a writer that takes a destination directory that is already there
WriteMutantExistOk(self, files, catalog_fn_w_path) ==
    IF ~self.valid_tds THEN Written("AssertionError", self, files)
    ELSE
    LET tds_catalog_root_folder == Parent(catalog_fn_w_path)
        tds_catalog_root_fn == catalog_fn_w_path[Len(catalog_fn_w_path)]
        self_link == WLink(S_self, RelHref(<<tds_catalog_root_fn>>), "application/json")
        self1 == [self EXCEPT !.tds_ctl_root_info.tds_root_metadata_d =
                                  DictSet(@, "links", <<self_link>>)]
        w0 == WriteStep("none", self1,
                        IF Exists(files, tds_catalog_root_folder) THEN files
                        ELSE DictSet(files, tds_catalog_root_folder, Dir),
                        tds_catalog_root_folder)
        w1 == WriteDatasheet(w0, tds_catalog_root_folder)
        w2 == WriteGlobalProfiles(w1, tds_catalog_root_folder, tds_catalog_root_fn,
                                  "features", KeysOf(self.field_schema.features), 1)
        w3 == WriteGlobalProfiles(w2, tds_catalog_root_folder, tds_catalog_root_fn,
                                  "references", KeysOf(self.field_schema.references), 1)
        w4 == WriteAois(w3, 1, tds_catalog_root_fn)
    IN  IF w4.err # "none" THEN Written(w4.err, w4.self, w4.files)
        ELSE Written("none", w4.self,
                     DictSet(w4.files, catalog_fn_w_path,
                             JsonFile(w4.self.tds_ctl_root_info.tds_root_metadata_d)))

\* write_TDS_STAC_Catalog
WriteTDSSTACCatalog(self, files, catalog_fn_w_path) ==
    IF ~self.valid_tds THEN Written("AssertionError", self, files)
    ELSE
    LET tds_catalog_root_folder == Parent(catalog_fn_w_path)
        tds_catalog_root_fn == catalog_fn_w_path[Len(catalog_fn_w_path)]
        made == Mkdir(files, tds_catalog_root_folder)
    IN  IF made.err # "none" THEN Written(made.err, self, files)
        ELSE IF self.tds_ctl_root_info = None THEN Written("AttributeError", self, made.val)
        ELSE
        LET self_link == WLink(S_self, RelHref(<<tds_catalog_root_fn>>), "application/json")
            self1 == [self EXCEPT !.tds_ctl_root_info.tds_root_metadata_d =
                                      DictSet(@, "links", <<self_link>>)]
            w0 == WriteStep("none", self1, made.val, tds_catalog_root_folder)
            w1 == WriteDatasheet(w0, tds_catalog_root_folder)
            w2 == WriteGlobalProfiles(w1, tds_catalog_root_folder, tds_catalog_root_fn,
                                      "features", KeysOf(self.field_schema.features), 1)
            w3 == WriteGlobalProfiles(w2, tds_catalog_root_folder, tds_catalog_root_fn,
                                      "references", KeysOf(self.field_schema.references), 1)
            w4 == WriteAois(w3, 1, tds_catalog_root_fn)
        IN  IF w4.err # "none" THEN Written(w4.err, w4.self, w4.files)
            ELSE Written("none", w4.self,
                         DictSet(w4.files, catalog_fn_w_path,
                                 JsonFile(w4.self.tds_ctl_root_info.tds_root_metadata_d)))

(***************************************************************************)
(* The file trees the loader is run on: a root catalog in ds/, its global  *)
(* profiles beside it, and two AOI collections in ds/aoi1/ and ds/aoi2/.   *)
(* The links of the root and of the first AOI document vary.               *)
(***************************************************************************)
MaxRootLinks == 2
MaxAoiLinks == 1

RootPath == <<"ds", "catalog.json">>
Aoi1Dir == <<"ds", "aoi1">>
Aoi2Dir == <<"ds", "aoi2">>

FieldA == <<"a">>
FieldB == <<"b">>

RelFeatureA == JoinSlash(<<S_metadata, S_features, FieldA>>)
RelReferenceB == JoinSlash(<<S_metadata, S_references, FieldB>>)
RelTwoTokens == JoinSlash(<<S_metadata, FieldA>>)
RelFourTokens == JoinSlash(<<S_metadata, S_features, FieldA, <<"x">>>>)
RelTypeCount == JoinSlash(<<S_metadata, S_count, FieldA>>)
RelTypeLabels == JoinSlash(<<S_metadata, S_labels, FieldA>>)
RelLongerFirstToken == JoinSlash(<<S_metadata \o <<"x">>, S_features, FieldA>>)

RootLinkChoices ==
    {Link(RelFeatureA, RelHref(<<"g_a.json">>)),
     Link(RelReferenceB, RelHref(<<"g_b.json">>)),
     Link(RelTwoTokens, RelHref(<<"g_a.json">>)),
     Link(RelTypeCount, RelHref(<<"g_a.json">>)),
     Link(RelLongerFirstToken, RelHref(<<"g_a.json">>)),
     Link(RelFeatureA, RelHref(<<"g_a2.json">>)),
     Link(RelFeatureA, RelHref(<<"g_missing.json">>)),
     Link(S_child, RelHref(<<"aoi1", "aoi.json">>)),
     Link(S_child, AbsHref(Aoi2Dir \o <<"aoi.json">>)),
     Link(S_child, RelHref(<<"aoi9", "aoi.json">>)),
     Link(S_self, RelHref(<<"catalog.json">>))}

AoiLinkChoices ==
    {Link(RelFeatureA, RelHref(<<"a.json">>)),
     Link(RelReferenceB, RelHref(<<"b.json">>)),
     Link(RelTwoTokens, RelHref(<<"a.json">>)),
     Link(RelFourTokens, RelHref(<<"a.json">>)),
     Link(RelTypeCount, RelHref(<<"a.json">>)),
     Link(RelTypeLabels, RelHref(<<"a.json">>)),
     Link(RelLongerFirstToken, RelHref(<<"a.json">>)),
     Link(RelReferenceB, RelHref(<<"p", "b.json">>)),
     Link(RelReferenceB, RelHref(<<"b0.json">>)),
     Link(RelReferenceB, RelHref(<<"b2.json">>)),
     Link(RelReferenceB, RelHref(<<"bm.json">>)),
     Link(S_self, RelHref(<<"aoi.json">>))}

\* a field profile that validates as an Item, and one that lacks keys of it
ProfileDoc(id, assets) ==
    [id |-> id, type |-> "Feature", geometry |-> "point", properties |-> <<>>,
     links |-> <<>>, assets |-> assets]

BareProfileDoc(id, assets) == [id |-> id, assets |-> assets]
Asset(href) == [href |-> href]

\* a root document that validates as an AIREOTDSCatalog
RootDoc(links) ==
    [id |-> "tds", type |-> "Collection", stac_version |-> "1.0.0-beta.2",
     title |-> "t", description |-> "d", license |-> "l", tasks |-> <<"regression">>,
     data_preprocessing |-> "p", example_definition |-> "e",
     compliance_level |-> "level 1",
     field_schema |-> [features |-> (FieldA :> <<"eo_image">>),
                       references |-> (FieldB :> <<"reference_data">>)],
     links |-> links]

\* root documents AIREOTDSCatalog rejects: no description, and no field_schema either
RootDocNoDescription(links) ==
    [id |-> "tds", type |-> "Collection", stac_version |-> "1.0.0-beta.2",
     title |-> "t", license |-> "l", tasks |-> <<"regression">>,
     data_preprocessing |-> "p", example_definition |-> "e",
     compliance_level |-> "level 1",
     field_schema |-> [features |-> (FieldA :> <<"eo_image">>),
                       references |-> (FieldB :> <<"reference_data">>)],
     links |-> links]

RootDocNoSchema == [id |-> "tds", links |-> <<>>]

\* an AOI document that validates as an AOICollection
AoiDoc(id, links) ==
    [id |-> id, stac_version |-> "1.0.0-beta.2", description |-> "d", license |-> "l",
     extent |-> "e", geometry |-> "polygon", links |-> links]

\* the files of one AOI directory besides the AOI document
AoiFiles(dir) ==
    (dir \o <<"a.json">>) :> JsonFile(ProfileDoc("a", "data" :> Asset(RelHref(<<"a.tif">>))))
    @@ (dir \o <<"b.json">>) :> JsonFile(ProfileDoc("b", "data" :> Asset(RelHref(<<"b.tif">>))))
    @@ (dir \o <<"a.tif">>) :> DataFile("raster a")
    @@ (dir \o <<"b.tif">>) :> DataFile("raster b")

FileTree(root_doc, aoi1_links) ==
    RootPath :> JsonFile(root_doc)
    @@ <<"ds", "g_a.json">> :> JsonFile(ProfileDoc("g_a", <<>>))
    @@ <<"ds", "g_a2.json">> :> JsonFile(BareProfileDoc("g_a2", <<>>))
    @@ <<"ds", "g_b.json">> :> JsonFile(ProfileDoc("g_b", <<>>))
    @@ (Aoi1Dir \o <<"aoi.json">>) :> JsonFile(AoiDoc("aoi1", aoi1_links))
    @@ AoiFiles(Aoi1Dir)
    @@ (Aoi1Dir \o <<"p", "b.json">>)
           :> JsonFile(ProfileDoc("b", "data" :> Asset(RelHref(<<"b.tif">>))))
    @@ (Aoi1Dir \o <<"p", "b.tif">>) :> DataFile("raster p/b")
    @@ (Aoi1Dir \o <<"b0.json">>) :> JsonFile(ProfileDoc("b", <<>>))
    @@ (Aoi1Dir \o <<"bm.json">>)
           :> JsonFile(ProfileDoc("b", "data" :> Asset(RelHref(<<"missing.tif">>))))
    @@ (Aoi1Dir \o <<"b2.json">>)
           :> JsonFile(ProfileDoc("b", "data" :> Asset(RelHref(<<"b.tif">>))
                                       @@ "more" :> Asset(RelHref(<<"a.tif">>))))
    @@ (Aoi2Dir \o <<"aoi.json">>)
           :> JsonFile(AoiDoc("aoi2", <<Link(RelFeatureA, RelHref(<<"a.json">>)),
                                        Link(RelReferenceB, RelHref(<<"b.json">>))>>))
    @@ AoiFiles(Aoi2Dir)

LoadPaths == {RootPath, <<"ds", "nowhere.json">>}

IdleLoad ==
    /\ fs = <<>>
    /\ load_call = NoLoadCall

InitLoad ==
    /\ \/ \E rl \in SeqUpTo(RootLinkChoices, MaxRootLinks),
             al \in SeqUpTo(AoiLinkChoices, MaxAoiLinks) :
                fs = FileTree(RootDoc(rl), al)
       \/ fs = FileTree(RootDocNoSchema, <<>>)
       \/ \E rl \in SeqUpTo({Link(RelFeatureA, RelHref(<<"g_a.json">>)),
                              Link(S_child, RelHref(<<"aoi1", "aoi.json">>))}, 1) :
             fs = FileTree(RootDocNoDescription(rl), <<>>)
    /\ load_call = NoLoadCall

NextLoad == \E p \in LoadPaths : LoadCatalog(p)

(***************************************************************************)
(* Calls on one DatasetSTACCatalog object.                                 *)
(***************************************************************************)
NoCatCall ==
    [op |-> "none", args |-> <<>>, outcome |-> "none", error |-> "none", value |-> None]

CallResult(op, args, err, val) ==
    [op |-> op, args |-> args, outcome |-> IF err = "none" THEN "returned" ELSE "raised",
     error |-> err, value |-> val]

MetadataRequirementInfo(required, recommended, optional) ==
    [required_metadata_set |-> required, recommended_metadata_set |-> recommended,
     optional_metadata_set |-> optional]

AddFieldSchemaCall(field_schema_d) ==
    LET r == AddFieldSchema(cat, field_schema_d)
    IN  /\ cat' = r.self
        /\ cat_call' = CallResult("add_field_schema", field_schema_d, r.err, r.val)
        /\ UNCHANGED <<req, fs, load_call>>
        /\ UNCHANGED <<dataset_vars, window_vars>>

AddTdsRootMetadataCall(a) ==
    LET r == AddTdsRootMetadata(cat, a.core_metatdata_d, a.g_feature_metadata_d,
                                a.g_ref_data_metadata_d, a.tds_root_path,
                                a.g_feature_profile_path_d, a.g_ref_data_profile_path_d)
    IN  /\ cat' = r.self
        /\ cat_call' = CallResult("add_tds_root_metadata", a, r.err, r.val)
        /\ UNCHANGED <<req, fs, load_call>>
        /\ UNCHANGED <<dataset_vars, window_vars>>

\* add_aoi_metadata appends without limit; the model stops after MaxAoiAdds AOIs
MaxAoiAdds == 1

AddAoiMetadataCall(a) ==
    LET r == AddAoiMetadata(cat, a.aoi_metadata_d, a.aoi_feature_metadata_d,
                            a.aoi_ref_data_metadata_d, a.aoi_feature_asset_path_d,
                            a.aoi_ref_data_asset_path_d, a.aoi_fn_path,
                            a.aoi_feature_profile_path_d, a.aoi_ref_data_profile_path_d)
    IN  /\ Len(cat.aoi_collection_info_l) < MaxAoiAdds
        /\ cat' = r.self
        /\ cat_call' = CallResult("add_aoi_metadata", a, r.err, r.val)
        /\ UNCHANGED <<req, fs, load_call>>
        /\ UNCHANGED <<dataset_vars, window_vars>>

ComputeComplianceLevelCall ==
    LET r == ComputeComplianceLevel(cat, req)
    IN  /\ cat' = r.self
        /\ cat_call' = CallResult("compute_compliance_level", <<>>, r.err, r.val)
        /\ UNCHANGED <<req, fs, load_call>>
        /\ UNCHANGED <<dataset_vars, window_vars>>

ReportMetadataCompletenessCall ==
    LET r == ReportMetadataCompleteness(cat, req)
    IN  /\ cat' = r.self
        /\ cat_call' = CallResult("report_metadata_completeness", <<>>, r.err, r.val)
        /\ UNCHANGED <<req, fs, load_call>>
        /\ UNCHANGED <<dataset_vars, window_vars>>

WriteCall(catalog_fn_w_path) ==
    LET r == WriteTDSSTACCatalog(cat, fs, catalog_fn_w_path)
    IN  /\ cat' = r.self
        /\ fs' = r.files
        /\ cat_call' = CallResult("write_TDS_STAC_Catalog", catalog_fn_w_path, r.err, None)
        /\ UNCHANGED <<req, load_call>>
        /\ UNCHANGED <<dataset_vars, window_vars>>

IdleCatalog ==
    /\ cat = NewCatalog
    /\ req = MetadataRequirementInfo({}, {}, {})
    /\ cat_call = NoCatCall

(***************************************************************************)
(* The requirement tables, documents and arguments the catalog is run on.  *)
(***************************************************************************)
ReqChoices ==
    {MetadataRequirementInfo({"id", "description"}, {"purpose"}, {"doi"}),
     MetadataRequirementInfo({"a", "b"}, {"c"}, {"d"}),
     MetadataRequirementInfo({"id"}, {}, {"doi"}),
     MetadataRequirementInfo({"id"}, {"purpose"}, {}),
     MetadataRequirementInfo({}, {"purpose"}, {"doi"})}

\* root documents with more keys than AIREOTDSCatalog requires
With(doc, keys) == [k \in DOMAIN doc \cup keys |-> IF k \in DOMAIN doc THEN doc[k] ELSE "v"]

CoreDocs ==
    {RootDoc(<<>>),
     With(RootDoc(<<>>), {"purpose"}),
     With(RootDoc(<<>>), {"doi"}),
     With(RootDoc(<<>>), {"purpose", "doi"}),
     With(RootDoc(<<>>), {"a", "c"}),
     RootDocNoDescription(<<>>)}

OutRoot == <<"out", "catalog.json">>
WritePaths == {OutRoot, RootPath}

\* the tree the assets of a built catalog lie in
BuildTree == FileTree(RootDoc(<<>>), <<>>)

RootArgs(core, gf, gr, gfp, grp) ==
    [core_metatdata_d |-> core, g_feature_metadata_d |-> gf, g_ref_data_metadata_d |-> gr,
     tds_root_path |-> None, g_feature_profile_path_d |-> gfp,
     g_ref_data_profile_path_d |-> grp]

GProfile == ProfileDoc("g", <<>>)
BadGProfile == BareProfileDoc("g", <<>>)

RootArgChoices ==
    {RootArgs(core, FieldA :> GProfile, FieldB :> GProfile, NoDict, NoDict) : core \in CoreDocs}
    \cup
    {RootArgs(RootDoc(<<>>), FieldA :> BadGProfile, FieldB :> GProfile, NoDict, NoDict),
     RootArgs(RootDoc(<<>>), FieldA :> GProfile, FieldB :> BadGProfile, NoDict, NoDict),
     RootArgs(RootDoc(<<>>), <<>>, FieldB :> GProfile, NoDict, NoDict),
     RootArgs(RootDoc(<<>>), <<>>, <<>>, NoDict, NoDict),
     RootArgs(RootDoc(<<>>), FieldA :> GProfile, FieldB :> GProfile,
              SomeDict(<<"x">> :> <<"g", "x.json">>), NoDict),
     RootArgs(RootDoc(<<>>), FieldA :> GProfile, FieldB :> GProfile,
              SomeDict(FieldA :> <<"g", "a.json">>), SomeDict(FieldB :> <<"g", "b.json">>)),
     RootArgs(RootDoc(<<>>), FieldA :> GProfile, FieldB :> GProfile,
              NoDict, SomeDict(FieldB :> <<"g", "b.json">>)),
     RootArgs(RootDoc(<<>>), FieldA :> GProfile, FieldB :> GProfile,
              NoDict, SomeDict(<<"x">> :> <<"g", "x.json">>))}

AoiArgs(aoi, f, r, fa, ra, fpd, rpd) ==
    [aoi_metadata_d |-> aoi, aoi_feature_metadata_d |-> f, aoi_ref_data_metadata_d |-> r,
     aoi_feature_asset_path_d |-> fa, aoi_ref_data_asset_path_d |-> ra,
     aoi_fn_path |-> EmptyPath, aoi_feature_profile_path_d |-> fpd,
     aoi_ref_data_profile_path_d |-> rpd]

AProfile == ProfileDoc("p", <<>>)
BadAProfile == BareProfileDoc("p", <<>>)
AssetA == Aoi1Dir \o <<"a.tif">>
AssetB == Aoi1Dir \o <<"b.tif">>

AoiArgChoices ==
    {AoiArgs(AoiDoc("aoi1", <<>>), FieldA :> AProfile, FieldB :> AProfile,
             FieldA :> AssetA, FieldB :> AssetB, NoDict, NoDict),
     AoiArgs(AoiDoc("aoi2", <<>>), FieldA :> AProfile, FieldB :> AProfile,
             FieldA :> AssetA, FieldB :> AssetB, NoDict, NoDict),
     AoiArgs([id |-> "aoi1"], FieldA :> AProfile, FieldB :> AProfile,
             FieldA :> AssetA, FieldB :> AssetB, NoDict, NoDict),
     AoiArgs(AoiDoc("aoi1", <<>>), FieldA :> BadAProfile, FieldB :> AProfile,
             FieldA :> AssetA, FieldB :> AssetB, NoDict, NoDict),
     AoiArgs(AoiDoc("aoi1", <<>>), FieldA :> AProfile, FieldB :> BadAProfile,
             FieldA :> AssetA, FieldB :> AssetB, NoDict, NoDict),
     AoiArgs(AoiDoc("aoi1", <<>>), FieldA :> AProfile, FieldB :> AProfile,
             <<>>, FieldB :> AssetB, NoDict, NoDict),
     AoiArgs(AoiDoc("aoi1", <<>>), FieldA :> AProfile, FieldB :> AProfile,
             FieldA :> AssetA, <<>>, NoDict, NoDict),
     AoiArgs(AoiDoc("aoi1", <<>>), <<>>, FieldB :> AProfile,
             <<>>, FieldB :> AssetB, NoDict, NoDict),
     AoiArgs(AoiDoc("aoi1", <<>>), FieldA :> AProfile, FieldB :> AProfile,
             FieldA :> AssetA, FieldB :> AssetB,
             SomeDict(<<"x">> :> <<"p", "x.json">>), NoDict),
     AoiArgs(AoiDoc("aoi1", <<>>), FieldA :> AProfile, FieldB :> AProfile,
             FieldA :> AssetA, FieldB :> AssetB,
             SomeDict(FieldA :> <<"p", "a.json">>), SomeDict(FieldB :> <<"p", "b.json">>)),
     AoiArgs(AoiDoc("aoi1", <<>>), FieldA :> AProfile, FieldB :> AProfile,
             FieldA :> AssetA, FieldB :> AssetB,
             NoDict, SomeDict(FieldB :> <<"p", "b.json">>)),
     \* two assets of one file name in different directories
     AoiArgs(AoiDoc("aoi1", <<>>), FieldA :> AProfile, FieldB :> AProfile,
             FieldA :> (Aoi1Dir \o <<"b.tif">>), FieldB :> (Aoi1Dir \o <<"p", "b.tif">>),
             NoDict, NoDict)}

SchemaChoices ==
    {[features |-> (FieldA :> <<"eo_image">>), references |-> (FieldB :> <<"reference_data">>)],
     [features |-> (FieldA :> <<"eo_image">>)]}

BuildReqChoices ==
    {MetadataRequirementInfo({"id", "description"}, {"purpose"}, {"doi"}),
     MetadataRequirementInfo({"id"}, {}, {"doi"})}

InitBuild ==
    /\ cat = NewCatalog
    /\ req \in BuildReqChoices
    /\ cat_call = NoCatCall
    /\ fs = BuildTree
    /\ load_call = NoLoadCall

NextBuild ==
    \/ \E d \in SchemaChoices : AddFieldSchemaCall(d)
    \/ \E a \in RootArgChoices : AddTdsRootMetadataCall(a)
    \/ \E a \in AoiArgChoices : AddAoiMetadataCall(a)
    \/ ComputeComplianceLevelCall
    \/ ReportMetadataCompletenessCall
    \/ \E p \in WritePaths : WriteCall(p)

InitSpecBuild == IdleDataset /\ IdleWindow /\ InitBuild

SpecBuild == InitSpecBuild /\ [][NextBuild]_vars

(***************************************************************************)
(* Round trips: a catalog loaded from ds/ is written to out/ (or onto the  *)
(* directory it came from) and the written root is loaded again.           *)
(***************************************************************************)
FieldX == <<"x">>
RelFeatureX == JoinSlash(<<S_metadata, S_features, FieldX>>)

GlobalLinks ==
    <<Link(RelFeatureA, RelHref(<<"g_a.json">>)), Link(RelReferenceB, RelHref(<<"g_b.json">>))>>
ChildAoi1 == Link(S_child, RelHref(<<"aoi1", "aoi.json">>))
ChildAoi2 == Link(S_child, RelHref(<<"aoi2", "aoi.json">>))
Aoi1Links ==
    <<Link(RelFeatureA, RelHref(<<"a.json">>)), Link(RelReferenceB, RelHref(<<"b.json">>))>>

Without(doc, key) == [k \in DOMAIN doc \ {key} |-> doc[k]]

\* an AOI profile of a field x, which the field schema does not name
FieldXFiles ==
    (Aoi1Dir \o <<"x.json">>) :> JsonFile(ProfileDoc("x", "data" :> Asset(RelHref(<<"x.tif">>))))
    @@ (Aoi1Dir \o <<"x.tif">>) :> DataFile("raster x")

RoundTripTrees ==
    {FileTree(With(RootDoc(GlobalLinks \o <<ChildAoi1, ChildAoi2>>), keys), Aoi1Links) :
        keys \in {{}, {"purpose"}, {"purpose", "doi"}, {"a", "c"}}}
    \cup
    {FileTree(RootDoc(GlobalLinks \o <<ChildAoi1>>), Aoi1Links),
     FileTree(RootDoc(GlobalLinks \o <<ChildAoi1, ChildAoi1>>), Aoi1Links),
     FileTree(RootDoc(<<GlobalLinks[1], ChildAoi1>>), Aoi1Links),
     FileTree(RootDoc(GlobalLinks \o <<ChildAoi1>>),
              Aoi1Links \o <<Link(RelFeatureX, RelHref(<<"x.json">>))>>) @@ FieldXFiles,
     FileTree(Without(RootDoc(GlobalLinks \o <<ChildAoi1>>), "title"), Aoi1Links),
     FileTree(RootDoc(GlobalLinks), Aoi1Links)}

InitRoundTrip ==
    /\ fs \in RoundTripTrees
    /\ cat = FromTDSCatalog(fs, RootPath).val
    /\ req \in ReqChoices
    /\ cat_call = NoCatCall
    /\ load_call = NoLoadCall

\* the written root is loaded once a write has made its directory
ReloadWritten ==
    /\ Exists(fs, Parent(OutRoot))
    /\ LoadCatalog(OutRoot)

NextRoundTrip ==
    \/ ComputeComplianceLevelCall
    \/ ReportMetadataCompletenessCall
    \/ \E p \in WritePaths : WriteCall(p)
    \/ ReloadWritten

InitSpecRoundTrip == IdleDataset /\ IdleWindow /\ InitRoundTrip

SpecRoundTrip == InitSpecRoundTrip /\ [][NextRoundTrip]_vars

InitSpecConstruct == InitConstruct /\ IdleWindow /\ IdleLoad /\ IdleCatalog

SpecConstruct == InitSpecConstruct /\ [][NextConstruct]_vars

InitSpecDataset == InitDataset /\ IdleWindow /\ IdleLoad /\ IdleCatalog

SpecDataset == InitSpecDataset /\ [][NextDataset]_vars

InitSpecWindow == IdleDataset /\ InitWindow /\ IdleLoad /\ IdleCatalog

SpecWindow == InitSpecWindow /\ [][NextWindow]_vars

InitSpecLoad == IdleDataset /\ IdleWindow /\ InitLoad /\ IdleCatalog

SpecLoad == InitSpecLoad /\ [][NextLoad]_vars

(***************************************************************************)
(* Claims about the example index and the facades (SpecDataset).           *)
(***************************************************************************)
\* offset[0] = 0, offset[k+1] = offset[k] + c_k
RECURSIVE Offset(_)
Offset(k) == IF k = 0 THEN 0 ELSE Offset(k - 1) + aoi_lens[k]

Total == Offset(Len(aoi_lens))

\* the AOI indexes k (0-based) with offset[k] <= i < offset[k+1]
OwnersOf(i) == {k \in 0 .. Len(aoi_lens) - 1 : Offset(k) <= i /\ i < Offset(k + 1)}

CoreOps == {"core.__getitem__", "core.get_example"}

\* C1: len(dataset) is the sum of the AOI lengths (zero lengths allowed); every
\* global index i in [0, sum) has exactly one owner k, its index map entry is
\* (k, i - offset[k]), and __getitem__(i) delegates to AOI k with that local index.
C1_IndexMapIsPrefixSumResolution ==
    /\ n_exs = Total
    /\ DOMAIN tds_ex_idx_2_aoi_ex_idx = 0 .. Total - 1
    /\ \A i \in 0 .. Total - 1 :
          /\ Cardinality(OwnersOf(i)) = 1
          /\ \A k \in OwnersOf(i) : tds_ex_idx_2_aoi_ex_idx[i] = <<k, i - Offset(k)>>
    /\ (ds_call.op = "core.__getitem__" /\ 0 <= ds_call.index /\ ds_call.index < Total)
          => /\ ds_call.outcome = "delegated"
             /\ ds_call.aoi \in OwnersOf(ds_call.index)
             /\ ds_call.local = ds_call.index - Offset(ds_call.aoi)

\* C1 witness: __getitem__ resolved an index of the last of three AOIs, behind an empty AOI
C1_Witness ==
    /\ Len(aoi_lens) = 3 /\ aoi_lens[2] = 0 /\ aoi_lens[1] > 0
    /\ ds_call.op = "core.__getitem__" /\ ds_call.outcome = "delegated"
    /\ ds_call.aoi = 2 /\ ds_call.local = 1
    /\ ds_call.index = aoi_lens[1] + 1

\* C2: core __getitem__ / get_example with an index outside [0, len(dataset)),
\* negative ones included, fails with an out-of-range error and never returns
\* the example of another index.
C2_OutOfRangeAlwaysFails ==
    (ds_call.op \in CoreOps /\ (ds_call.index < 0 \/ ds_call.index >= Total))
        => ds_call.outcome = "IndexError"

\* C3: the CAP facade sends every global index i in [0, total) to the AOI k with
\* offset[k] <= i < offset[k+1], with local index i - offset[k].
C3_CapFacadeResolves ==
    (ds_call.op = "cap.__getitem__" /\ 0 <= ds_call.index /\ ds_call.index < Total)
        => /\ ds_call.outcome = "delegated"
           /\ ds_call.aoi \in OwnersOf(ds_call.index)
           /\ ds_call.local = ds_call.index - Offset(ds_call.aoi)

\* C4: the SpaceNet7 facade fails with an out-of-range error for every index
\* outside [0, len(dataset)); it returns neither None nor an example.
C4_SnFacadeOutOfRangeFails ==
    (ds_call.op = "sn.__getitem__" /\ (ds_call.index < 0 \/ ds_call.index >= Total))
        => ds_call.outcome \in {"SystemExit", "IndexError"}

(***************************************************************************)
(* Claims about the per-AOI windowed tile indexers (SpecWindow).           *)
(***************************************************************************)
\* floor((extent - S) / St), the mathematical floor
FloorAxis(extent) == (extent - metadata.window_size) \div metadata.stride

\* (extent - S) / St rounded toward zero
TruncAxis(extent) ==
    LET d == extent - metadata.window_size
    IN  IF d >= 0 THEN d \div metadata.stride ELSE -((-d) \div metadata.stride)

MaxOf(a, b) == IF a >= b THEN a ELSE b

IsExampleRaster ==
    /\ shape.W = 356 /\ shape.H = 356
    /\ metadata.window_size = 256 /\ metadata.stride = 26

\* C5 (as stated): the exclusive count is floor((W-S)/St) * floor((H-S)/St), with
\* the mathematical floor also when an extent is smaller than S.
C5_ExclusiveCountIsFloor ==
    win_call.op = "AOIDatasetCAP.__len__"
        => win_call.value = FloorAxis(shape.W) * FloorAxis(shape.H)

\* C5 (amended): the exclusive count is the product of the two quotients
\* (extent - S) / St rounded toward zero; that is the floor formula whenever both
\* extents are at least S; W=H=356, S=256, St=26 gives 3 per axis and 9 in total.
C5_ExclusiveCountIsTruncation ==
    win_call.op = "AOIDatasetCAP.__len__"
        => /\ win_call.outcome = "returned"
           /\ win_call.value = TruncAxis(shape.W) * TruncAxis(shape.H)
           /\ (shape.W >= metadata.window_size /\ shape.H >= metadata.window_size)
                 => win_call.value = FloorAxis(shape.W) * FloorAxis(shape.H)
           /\ IsExampleRaster => (TruncAxis(shape.W) = 3 /\ win_call.value = 9)

\* C5 witness: __len__ was taken of a raster narrower than the window, where
\* rounding toward zero and the floor differ, and of one that windows fit in
C5_Witness ==
    /\ win_call.op = "AOIDatasetCAP.__len__"
    /\ shape.W < metadata.window_size
    /\ FloorAxis(shape.W) # TruncAxis(shape.W)
    /\ FloorAxis(shape.H) = 2
    /\ win_call.value = 0

C7_CapWindowRowByAxisWindowsX ==
    LET axisWindowsX == TruncAxis(shape.W)
        axisWindowsY == TruncAxis(shape.H)
        i == win_call.index
    IN  (/\ win_call.op = "AOIDatasetCAP.__getitem__"
         /\ axisWindowsX > 0 /\ axisWindowsY > 0
         /\ 0 <= i /\ i < axisWindowsX * axisWindowsY)
            => /\ win_call.outcome = "window"
               /\ win_call.x1 = metadata.stride * (i % axisWindowsX)
               /\ win_call.y1 = metadata.stride * (i \div axisWindowsX)
               /\ win_call.x2 = win_call.x1 + metadata.window_size
               /\ win_call.y2 = win_call.y1 + metadata.window_size

\* the local example count the pilot's __len__ gives (0 when it gives none)
LocalTotal(op) ==
    IF op = "AOIDatasetCAP.__getitem__" THEN CapLenValue(shape, metadata)
    ELSE IF SnLenResult(shape, metadata).outcome = "returned"
         THEN SnLenResult(shape, metadata).value
         ELSE 0

\* C8: both pilot per-AOI indexers fail for every local index outside [0, total),
\* negative ones and index = total included, and compute no window for it.
C8_AoiIndexOutOfRangeFails ==
    (/\ win_call.op \in {"AOIDatasetCAP.__getitem__", "AOIDatasetSpaceNet.__getitem__"}
     /\ (win_call.index < 0 \/ win_call.index >= LocalTotal(win_call.op)))
        => win_call.outcome # "window"

(***************************************************************************)
(* Claims about the bulk loader (SpecLoad).                                *)
(***************************************************************************)
Loaded == load_call.op = "from_TDSCatalog" /\ load_call.path = RootPath

RootLinks ==
    IF "links" \in DOMAIN fs[RootPath].doc THEN fs[RootPath].doc.links ELSE <<>>

IsChildLink(link) == link.rel = S_child
IsMetadataLink(link) == StartsWith(link.rel, S_metadata)

\* the 'child' links of the root document, in link order
ChildLinks == SelectSeq(RootLinks, IsChildLink)

\* where the documents of a link of the root, and of a link of an AOI document, lie
RootTarget(link) == ResolveHref(<<"ds">>, link.href)
AoiTarget(child, link) == ResolveHref(Parent(RootTarget(child)), link.href)

\* the relation grammar: metadata/<features|references>/<field name>, written out
FieldNames == {FieldA, FieldB, <<"x">>}
FieldTypes == {S_features, S_references}
GrammarRels == {JoinSlash(<<S_metadata, t, n>>) : t \in FieldTypes, n \in FieldNames}

\* the links the load walks through: those of the root, then those of each AOI
\* document a child link of the root leads to
LinksOfChild(child) ==
    IF RootTarget(child) \in DOMAIN fs /\ fs[RootTarget(child)].kind = "json"
    THEN fs[RootTarget(child)].doc.links
    ELSE <<>>

Range(seq) == {seq[i] : i \in DOMAIN seq}

WalkedMetadataLinks ==
    {l \in Range(RootLinks) : IsMetadataLink(l)}
        \cup UNION {{l \in Range(LinksOfChild(c)) : IsMetadataLink(l)} : c \in Range(ChildLinks)}

\* the dictionary of a field type in an AllFieldMetadata
Stored(all_field_metadata, field_type) ==
    IF field_type = S_features THEN all_field_metadata.features
    ELSE all_field_metadata.references

\* C9: a link whose rel starts with 'metadata' is accepted only if it is
\* metadata/<features|references>/<name>, and then its profile is stored under
\* (type, name); any other rel starting with 'metadata' makes the load fail.
C9_OnlyGrammarRelsAreAccepted ==
    Loaded =>
        /\ (\E l \in WalkedMetadataLinks : l.rel \notin GrammarRels)
              => load_call.outcome = "raised"
        /\ load_call.outcome = "returned"
              => \A l \in Range(RootLinks) : \A t \in FieldTypes, n \in FieldNames :
                    l.rel = JoinSlash(<<S_metadata, t, n>>)
                       => n \in DOMAIN Stored(
                             load_call.catalog.tds_ctl_root_info.g_all_field_metadata, t)

\* C10: from_TDSCatalog either raises and hands out no catalog, or returns a
\* catalog with valid_tds = True holding one AOICollectionInfo per 'child' link
\* of the root, in link order, each with its field metadata populated; a root
\* profile, AOI document or AOI profile that cannot be read never comes with a
\* returned catalog.
C10_LoadIsAllOrNothing ==
    load_call.op = "from_TDSCatalog" =>
        \/ /\ load_call.outcome = "raised"
           /\ load_call.error # "none"
           /\ load_call.catalog = None
        \/ /\ load_call.outcome = "returned"
           /\ Loaded
           /\ load_call.catalog.valid_tds
           /\ LET aoi_l == load_call.catalog.aoi_collection_info_l
              IN  /\ Len(aoi_l) = Len(ChildLinks)
                  /\ \A k \in 1 .. Len(ChildLinks) :
                        /\ aoi_l[k].fn_path = RootTarget(ChildLinks[k])
                        /\ aoi_l[k].aoi_all_field_metadata # None
                        /\ DOMAIN aoi_l[k].aoi_all_field_metadata = {"features", "references"}
           /\ \A l \in Range(RootLinks) :
                 /\ IsMetadataLink(l) => RootTarget(l) \in DOMAIN fs
                 /\ IsChildLink(l) =>
                       /\ RootTarget(l) \in DOMAIN fs
                       /\ \A m \in Range(LinksOfChild(l)) :
                             IsMetadataLink(m) => AoiTarget(l, m) \in DOMAIN fs

\* C10 witness: a load returned two AOIs in the order of the root's child links
\* (ds/aoi2 first), the second with a field profile loaded
C10_Witness ==
    /\ Loaded /\ load_call.outcome = "returned"
    /\ Len(load_call.catalog.aoi_collection_info_l) = 2
    /\ load_call.catalog.aoi_collection_info_l[1].fn_path = Aoi2Dir \o <<"aoi.json">>
    /\ load_call.catalog.aoi_collection_info_l[2].fn_path = Aoi1Dir \o <<"aoi.json">>
    /\ FieldB \in DOMAIN load_call.catalog.aoi_collection_info_l[2].aoi_all_field_metadata.references

\* the number of entries of the 'assets' map of the profile at path (-1 when
\* there is no such document or map)
AssetCount(path) ==
    IF path \in DOMAIN fs /\ fs[path].kind = "json" /\ "assets" \in DOMAIN fs[path].doc
    THEN Cardinality(DOMAIN fs[path].doc.assets)
    ELSE -1

\* the FieldProfileInfo objects of an AllFieldMetadata
ProfilesOf(all_field_metadata) ==
    Range(all_field_metadata.features) \cup Range(all_field_metadata.references)

\* C11: an AOI field profile with 0 or with 2 or more assets makes the whole load
\* fail; a loaded AOI profile carries exactly one asset path (that of the only
\* entry of its 'assets' map) and a loaded global profile carries none.
C11_ExactlyOneAssetPerAoiProfile ==
    Loaded =>
        /\ (\E c \in Range(ChildLinks) : \E m \in Range(LinksOfChild(c)) :
                /\ IsMetadataLink(m)
                /\ AssetCount(AoiTarget(c, m)) \notin {-1, 1})
              => load_call.outcome = "raised"
        /\ load_call.outcome = "returned" =>
              /\ \A k \in DOMAIN load_call.catalog.aoi_collection_info_l :
                    \A fp \in ProfilesOf(
                              load_call.catalog.aoi_collection_info_l[k].aoi_all_field_metadata) :
                       /\ Cardinality(DOMAIN fp.metadata_d.assets) = 1
                       /\ fp.data_asset_info_d \in Range(fp.metadata_d.assets)
                       /\ fp.data_asset_w_path # None
                       /\ fp.data_asset_w_path \in Seq({"ds", "aoi1", "aoi2", "p", "a.tif", "b.tif"})
              /\ \A fp \in ProfilesOf(load_call.catalog.tds_ctl_root_info.g_all_field_metadata) :
                    fp.data_asset_w_path = None /\ fp.data_asset_info_d = None

\* C11 witness: the root links one AOI whose only profile has two assets, and
\* the load failed on it
C11_Witness ==
    /\ Loaded /\ load_call.outcome = "raised" /\ load_call.error = "Exception"
    /\ RootLinks = <<Link(S_child, RelHref(<<"aoi1", "aoi.json">>))>>
    /\ LinksOfChild(RootLinks[1]) = <<Link(RelReferenceB, RelHref(<<"b2.json">>))>>
    /\ AssetCount(Aoi1Dir \o <<"b2.json">>) = 2

\* the field type and name of a link that follows the relation grammar
TypeOf(link) == Split(link.rel)[2]
NameOf(link) == Split(link.rel)[3]

\* the positions of two links of the root document with the same type and name
DuplicateRootLinks ==
    {p \in (DOMAIN RootLinks) \X (DOMAIN RootLinks) :
        /\ p[1] < p[2]
        /\ RootLinks[p[1]].rel \in GrammarRels /\ RootLinks[p[2]].rel \in GrammarRels
        /\ TypeOf(RootLinks[p[1]]) = TypeOf(RootLinks[p[2]])
        /\ NameOf(RootLinks[p[1]]) = NameOf(RootLinks[p[2]])}

\* C12: when two metadata links of one document have the same type and field
\* name, the later profile replaces the earlier one in the field metadata and the
\* load reports the collision (here: through logger; the result of a load that
\* returned is the catalog alone).
C12_DuplicateIsOverwrittenAndReported ==
    (Loaded /\ load_call.outcome = "returned") =>
        \A p \in DuplicateRootLinks :
            /\ Stored(load_call.catalog.tds_ctl_root_info.g_all_field_metadata,
                      TypeOf(RootLinks[p[2]]))[NameOf(RootLinks[p[2]])].fn_path
                  = RootTarget(RootLinks[p[2]])
            /\ load_call.logged # <<>>

\* C13: every relative href is resolved against the directory of the document
\* that contains it: a link of the root against the root's directory, a link of
\* an AOI document against that document's directory, the asset href of an AOI
\* field profile against the profile's directory.
C13_HrefsResolveAgainstOwningDocument ==
    (Loaded /\ load_call.outcome = "returned") =>
        /\ \A fp \in ProfilesOf(load_call.catalog.tds_ctl_root_info.g_all_field_metadata) :
              \E l \in Range(RootLinks) :
                 IsMetadataLink(l) /\ fp.fn_path = ResolveHref(Parent(RootPath), l.href)
        /\ \A k \in DOMAIN load_call.catalog.aoi_collection_info_l :
              LET aoi == load_call.catalog.aoi_collection_info_l[k]
              IN  /\ aoi.fn_path = ResolveHref(Parent(RootPath), ChildLinks[k].href)
                  /\ \A fp \in ProfilesOf(aoi.aoi_all_field_metadata) :
                        \E l \in Range(aoi.aoi_collection_metadata_d.links) :
                           /\ IsMetadataLink(l)
                           /\ fp.fn_path = ResolveHref(Parent(aoi.fn_path), l.href)
                  /\ \A fp \in ProfilesOf(aoi.aoi_all_field_metadata) :
                        fp.data_asset_w_path
                           = ResolveHref(Parent(fp.fn_path), fp.data_asset_info_d.href)

\* C14: a catalog that from_TDSCatalog returns holds only documents the
\* validate_* functions accept: the root, every AOI document, every global and
\* every AOI field profile.
C14_LoaderAdmitsOnlyValidDocuments ==
    (load_call.op = "from_TDSCatalog" /\ load_call.outcome = "returned") =>
        /\ load_call.catalog.valid_tds
        /\ validate_tds_root_dict(load_call.catalog.tds_ctl_root_info.tds_root_metadata_d)
        /\ \A fp \in ProfilesOf(load_call.catalog.tds_ctl_root_info.g_all_field_metadata) :
              validate_global_profile_dict(fp.metadata_d)
        /\ \A k \in DOMAIN load_call.catalog.aoi_collection_info_l :
              LET aoi == load_call.catalog.aoi_collection_info_l[k]
              IN  /\ validate_aoi_dict(aoi.aoi_collection_metadata_d)
                  /\ \A fp \in ProfilesOf(aoi.aoi_all_field_metadata) :
                        validate_aoi_profile_dict(fp.metadata_d)


(***************************************************************************)
(* The builder, the calculators and the writer                             *)
(***************************************************************************)
\* a supplied path (or asset path) dictionary that lacks a field of the profiles
LacksField(opt, profiles) == ~opt.is_none /\ \E n \in DOMAIN profiles : n \notin DOMAIN opt.d

\* the inputs of add_tds_root_metadata the builder is to reject
RootInputRejected(a) ==
    \/ ~validate_tds_root_dict(DictSet(DictSet(a.core_metatdata_d, "links", <<>>),
                                       "assets", <<>>))
    \/ \E n \in DOMAIN a.g_feature_metadata_d :
          ~validate_global_profile_dict(a.g_feature_metadata_d[n])
    \/ \E n \in DOMAIN a.g_ref_data_metadata_d :
          ~validate_global_profile_dict(a.g_ref_data_metadata_d[n])
    \/ LacksField(a.g_feature_profile_path_d, a.g_feature_metadata_d)
    \/ LacksField(a.g_ref_data_profile_path_d, a.g_ref_data_metadata_d)
    \/ (DOMAIN a.g_feature_metadata_d = {} /\ DOMAIN a.g_ref_data_metadata_d # {})

\* the inputs of add_aoi_metadata the builder is to reject
AoiInputRejected(a) ==
    \/ ~validate_aoi_dict(DictSet(DictSet(a.aoi_metadata_d, "links", <<>>), "assets", <<>>))
    \/ \E n \in DOMAIN a.aoi_feature_metadata_d :
          ~validate_aoi_profile_dict(a.aoi_feature_metadata_d[n])
    \/ \E n \in DOMAIN a.aoi_ref_data_metadata_d :
          ~validate_aoi_profile_dict(a.aoi_ref_data_metadata_d[n])
    \/ LacksField(a.aoi_feature_profile_path_d, a.aoi_feature_metadata_d)
    \/ LacksField(a.aoi_ref_data_profile_path_d, a.aoi_ref_data_metadata_d)
    \/ \E n \in DOMAIN a.aoi_feature_metadata_d : n \notin DOMAIN a.aoi_feature_asset_path_d
    \/ \E n \in DOMAIN a.aoi_ref_data_metadata_d : n \notin DOMAIN a.aoi_ref_data_asset_path_d

ReturnedFalse == cat_call.outcome = "returned" /\ cat_call.value = FALSE

\* C15: add_tds_root_metadata and add_aoi_metadata never raise, and on an input
\* that is to be rejected (invalid core or AOI document, invalid feature or
\* reference profile, a field missing from a supplied path or asset path
\* dictionary, references without features) they return False.
C15_BuilderFailsSoftly ==
    /\ cat_call.op \in {"add_tds_root_metadata", "add_aoi_metadata"}
          => cat_call.outcome = "returned"
    /\ (cat_call.op = "add_tds_root_metadata" /\ RootInputRejected(cat_call.args))
          => ReturnedFalse
    /\ (cat_call.op = "add_aoi_metadata" /\ AoiInputRejected(cat_call.args))
          => ReturnedFalse


\* the quotient f equals num / den
FractionIs(f, num, den) == f.num * den = num * f.den

\* |keys \cap tier| / |tier|, and 1.0 for an empty tier
TierCompleteness(f, keys, tier) ==
    IF tier = {} THEN FractionIs(f, 1, 1)
    ELSE FractionIs(f, Cardinality(keys \cap tier), Cardinality(tier))

RootKeys == DOMAIN cat.tds_ctl_root_info.tds_root_metadata_d

\* C16: report_metadata_completeness on a validated catalog returns, for each of
\* the three tiers, the fraction of the tier's names that are keys of the root
\* document, and 1.0 for an empty tier.
C16_CompletenessIsFractionPerTier ==
    (cat_call.op = "report_metadata_completeness" /\ cat.valid_tds) =>
        /\ cat_call.outcome = "returned"
        /\ LET d == cat_call.value.tds_core_metadata
           IN  /\ TierCompleteness(d.required_metadata, RootKeys, req.required_metadata_set)
               /\ TierCompleteness(d.recommended_metadata, RootKeys,
                                   req.recommended_metadata_set)
               /\ TierCompleteness(d.optional_metadata, RootKeys, req.optional_metadata_set)


\* C17: compute_compliance_level on a validated catalog returns 1, 2 or 3: at
\* least 2 exactly when every recommended name is a key of the root document, 3
\* exactly when every optional name is one too; the required names play no part
\* and an empty tier counts as satisfied.
C17_ComplianceLevelByTiers ==
    (cat_call.op = "compute_compliance_level" /\ cat.valid_tds) =>
        /\ cat_call.outcome = "returned"
        /\ cat_call.value \in {1, 2, 3}
        /\ cat_call.value \in {2, 3} <=> req.recommended_metadata_set \subseteq RootKeys
        /\ cat_call.value = 3 <=> /\ req.recommended_metadata_set \subseteq RootKeys
                                  /\ req.optional_metadata_set \subseteq RootKeys

\* a level 2: all of a non-empty recommended tier present, an optional name
\* and a required name missing
C17_Witness ==
    /\ cat_call.op = "compute_compliance_level"
    /\ cat_call.outcome = "returned"
    /\ cat_call.value = 2
    /\ req.recommended_metadata_set # {}
    /\ ~(req.required_metadata_set \subseteq RootKeys)


GuardedOps ==
    {"compute_compliance_level", "report_metadata_completeness", "write_TDS_STAC_Catalog"}

\* C18: whatever calls of add_field_schema, add_tds_root_metadata and
\* add_aoi_metadata came before, a call of compute_compliance_level,
\* report_metadata_completeness or write_TDS_STAC_Catalog on a catalog whose
\* valid_tds is False raises AssertionError and leaves the catalog and the
\* file tree as they were.
C18_GuardedByValidTds ==
    [][(cat_call'.op \in GuardedOps /\ ~cat.valid_tds) =>
          /\ cat_call'.error = "AssertionError"
          /\ cat' = cat
          /\ fs' = fs]_vars

\* a write refused on a catalog that has its root metadata but no AOI yet
C18_Witness ==
    /\ cat_call.op = "write_TDS_STAC_Catalog"
    /\ cat_call.error = "AssertionError"
    /\ cat.valid_tds_root
    /\ ~cat.valid_tds
    /\ fs = BuildTree


\* C19: a write_TDS_STAC_Catalog of a validated catalog whose destination root
\* directory is already there raises FileExistsError, and the call leaves every
\* file and directory and the catalog in memory as they were.
C19_ExistingDestinationIsRefused ==
    [][(/\ cat_call'.op = "write_TDS_STAC_Catalog"
        /\ load_call' = load_call
        /\ cat.valid_tds
        /\ Exists(fs, Parent(cat_call'.args))) =>
          /\ cat_call'.error = "FileExistsError"
          /\ cat' = cat
          /\ fs' = fs]_vars

\* a write onto the directory the catalog was loaded from, refused with that
\* directory as it was
C19_Witness ==
    /\ cat_call.op = "write_TDS_STAC_Catalog"
    /\ cat_call.args = RootPath
    /\ cat_call.error = "FileExistsError"
    /\ fs \in RoundTripTrees
    /\ cat = FromTDSCatalog(fs, RootPath).val


\* the ids of the AOIs of a catalog, in the order of the list
AoiIds(catalog) ==
    [k \in DOMAIN catalog.aoi_collection_info_l |->
        catalog.aoi_collection_info_l[k].aoi_collection_metadata_d.id]

\* the catalog that from_TDSCatalog gave for ds/, which no write changes
Original == FromTDSCatalog(fs, RootPath).val

\* C20: a catalog loaded by from_TDSCatalog and written to a directory that was
\* not there can be loaded from the written root, and the catalog loaded from
\* it has the field_schema of the original and the AOI ids of the original, one
\* AOI for each, in the same order.
C20_RoundTripKeepsSchemaAndAoiIds ==
    (load_call.op = "from_TDSCatalog" /\ load_call.path = OutRoot) =>
        /\ load_call.outcome = "returned"
        /\ load_call.catalog.field_schema = Original.field_schema
        /\ AoiIds(load_call.catalog) = AoiIds(Original)


(***************************************************************************)
(* The constructor of core.EOTrainingDataset                               *)
(***************************************************************************)
\* C21: core.EOTrainingDataset calls pre_process exactly once for a dataset
\* object: the call comes when n_exs and the index map have been computed, no
\* example is read through __getitem__, get_example or get_subset before it,
\* and no such operation calls it again.
C21_PreProcessOnceAfterIndexBeforeAccess ==
    /\ [](pre_process_calls \in {0, 1})
    /\ [](init_pc = "returned" <=> pre_process_calls = 1)
    /\ [][pre_process_calls' # pre_process_calls =>
             /\ init_pc = "n_exs"
             /\ n_exs = ComputeDsLength(aoi_lens).n_exs
             /\ tds_ex_idx_2_aoi_ex_idx = ComputeDsLength(aoi_lens).map]_vars
    /\ [][ds_call' # ds_call =>
             /\ pre_process_calls = 1
             /\ pre_process_calls' = 1]_vars

\* two examples read through get_subset of a constructed dataset
C21_Witness ==
    /\ ds_call.op = "core.get_subset"
    /\ ds_call.outcome = "delegated"
    /\ Len(ds_call.index) = 2
    /\ init_pc = "returned"
    /\ pre_process_calls = 1


(***************************************************************************)
(* The catalog object between its methods                                  *)
(***************************************************************************)
\* the links of every AOI document and the metadata of every AOI field profile
AoiLinksAndProfiles(catalog) ==
    [k \in DOMAIN catalog.aoi_collection_info_l |->
        LET aoi == catalog.aoi_collection_info_l[k]
        IN  [links |-> aoi.aoi_collection_metadata_d.links,
             features |-> [n \in DOMAIN aoi.aoi_all_field_metadata.features |->
                              aoi.aoi_all_field_metadata.features[n].metadata_d],
             references |-> [n \in DOMAIN aoi.aoi_all_field_metadata.references |->
                                aoi.aoi_all_field_metadata.references[n].metadata_d]]]

\* C22: in a loaded catalog on which only compute_compliance_level,
\* report_metadata_completeness and write_TDS_STAC_Catalog are called, the
\* links of every AOI document and the metadata (links, assets) of every AOI
\* field profile stay as from_TDSCatalog made them.
C22_OnlyBuilderChangesAois ==
    AoiLinksAndProfiles(cat) = AoiLinksAndProfiles(Original)


\* the fields of one type that field metadata holds agree with those of the schema
SameFields(schema, all_field_metadata) ==
    /\ DOMAIN all_field_metadata.features = DOMAIN schema.features
    /\ DOMAIN all_field_metadata.references = DOMAIN schema.references

\* C23: in a catalog with valid_tds = True every field of the global field
\* metadata and of every AOI's field metadata is a field of the same type of
\* field_schema, named once in the schema, and every field of the schema has
\* a global profile and a profile in every AOI.
C23_ValidCatalogAgreesWithSchema ==
    cat.valid_tds =>
        /\ DOMAIN cat.field_schema.features \cap DOMAIN cat.field_schema.references = {}
        /\ SameFields(cat.field_schema, cat.tds_ctl_root_info.g_all_field_metadata)
        /\ \A k \in DOMAIN cat.aoi_collection_info_l :
              SameFields(cat.field_schema, cat.aoi_collection_info_l[k].aoi_all_field_metadata)


\* the core document and every global profile of a call of add_tds_root_metadata validate
RootInputValidates(a) ==
    /\ validate_tds_root_dict(DictSet(DictSet(a.core_metatdata_d, "links", <<>>),
                                      "assets", <<>>))
    /\ \A n \in DOMAIN a.g_feature_metadata_d :
          validate_global_profile_dict(a.g_feature_metadata_d[n])
    /\ \A n \in DOMAIN a.g_ref_data_metadata_d :
          validate_global_profile_dict(a.g_ref_data_metadata_d[n])

\* C24: add_tds_root_metadata returns True, with tds_ctl_root_info set and
\* valid_tds_root = True, only when the core document and every global feature
\* and reference profile validate; with an invalid reference profile it returns
\* False and admits no root.
C24_RootAdmittedOnlyWhenAllValidate ==
    cat_call.op = "add_tds_root_metadata" =>
        /\ (cat_call.outcome = "returned" /\ cat_call.value = TRUE)
              => RootInputValidates(cat_call.args)
        /\ cat.valid_tds_root => RootInputValidates(cat_call.args)
        /\ (\E n \in DOMAIN cat_call.args.g_ref_data_metadata_d :
               ~validate_global_profile_dict(cat_call.args.g_ref_data_metadata_d[n]))
              => (ReturnedFalse /\ ~cat.valid_tds_root)


\* the asset file the written profile of a field of an AOI refers to
WrittenAsset(catalog_fn_w_path, aoi_collection_info, profile) ==
    Parent(catalog_fn_w_path) \o <<aoi_collection_info.aoi_collection_metadata_d.id>>
        \o profile.metadata_d.assets["data"].href.path

\* the written asset of every field of one type of the schema holds what the
\* asset the field came with holds
AssetsKept(catalog_fn_w_path, field_type) ==
    \A k \in DOMAIN cat.aoi_collection_info_l :
        \A n \in DOMAIN cat.field_schema[field_type] :
            LET aoi_collection_info == cat.aoi_collection_info_l[k]
                profile == aoi_collection_info.aoi_all_field_metadata[field_type][n]
                written == WrittenAsset(catalog_fn_w_path, aoi_collection_info, profile)
            IN  /\ Exists(fs, written)
                /\ Exists(fs, profile.data_asset_w_path)
                /\ fs[written] = fs[profile.data_asset_w_path]

\* C25: after write_TDS_STAC_Catalog has returned, for every AOI and every
\* field of the schema the asset file './<name>' of the written profile, in
\* the AOI's sub-directory, has the content of the asset the field came with,
\* also when two fields of an AOI come with assets of one file name.
C25_WrittenAssetsKeepContent ==
    (cat_call.op = "write_TDS_STAC_Catalog" /\ cat_call.outcome = "returned") =>
        /\ AssetsKept(cat_call.args, "features")
        /\ AssetsKept(cat_call.args, "references")


\* C26: in every state the builder methods reach from a fresh catalog,
\* valid_tds = True implies valid_tds_root = True, valid_field_schema = True
\* and at least one admitted AOI, also after an add_tds_root_metadata that was
\* rejected once the catalog had become valid.
C26_ValidTdsImpliesItsParts ==
    cat.valid_tds =>
        /\ cat.valid_tds_root
        /\ cat.valid_field_schema
        /\ Len(cat.aoi_collection_info_l) >= 1


\* C27: a call of add_tds_root_metadata or add_aoi_metadata that returns False
\* leaves field_schema, valid_field_schema, valid_tds_root, valid_tds,
\* tds_ctl_root_info and aoi_collection_info_l as they were.
C27_RejectedCallChangesNothing ==
    [][(/\ cat_call'.op \in {"add_tds_root_metadata", "add_aoi_metadata"}
        /\ cat_call'.outcome = "returned"
        /\ cat_call'.value = FALSE)
          => /\ cat'.field_schema = cat.field_schema
             /\ cat'.valid_field_schema = cat.valid_field_schema
             /\ cat'.valid_tds_root = cat.valid_tds_root
             /\ cat'.valid_tds = cat.valid_tds
             /\ cat'.tds_ctl_root_info = cat.tds_ctl_root_info
             /\ cat'.aoi_collection_info_l = cat.aoi_collection_info_l]_vars


\* the catalog after add_tds_root_metadata, and after add_aoi_metadata, with the
\* arguments of a call
AfterRoot(self, a) ==
    AddTdsRootMetadata(self, a.core_metatdata_d, a.g_feature_metadata_d,
                       a.g_ref_data_metadata_d, a.tds_root_path,
                       a.g_feature_profile_path_d, a.g_ref_data_profile_path_d).self
AfterAoi(self, a) ==
    AddAoiMetadata(self, a.aoi_metadata_d, a.aoi_feature_metadata_d,
                   a.aoi_ref_data_metadata_d, a.aoi_feature_asset_path_d,
                   a.aoi_ref_data_asset_path_d, a.aoi_fn_path,
                   a.aoi_feature_profile_path_d, a.aoi_ref_data_profile_path_d).self

\* add_aoi_metadata has returned True on a fresh catalog and add_tds_root_metadata
\* returns True next
AoiThenRoot ==
    /\ cat_call.op = "add_aoi_metadata"
    /\ cat_call.outcome = "returned"
    /\ cat_call.value = TRUE
    /\ cat = AfterAoi(NewCatalog, cat_call.args)
    /\ cat_call'.op = "add_tds_root_metadata"
    /\ cat_call'.outcome = "returned"
    /\ cat_call'.value = TRUE

\* C28: a catalog built as 'AOI, then root' on a fresh object, both calls
\* returning True, ends with valid_tds = True and with the root and AOI list
\* of the catalog built as 'root, then AOI' from the same arguments.
C28_BuildOrderDoesNotMatter ==
    [][AoiThenRoot =>
          /\ cat'.valid_tds
          /\ cat' = AfterAoi(AfterRoot(NewCatalog, cat_call'.args), cat_call.args)]_vars


(***************************************************************************)
(* The windows of the pilot per-AOI datasets                               *)
(***************************************************************************)
\* the window of the last call lies inside the raster
WindowInsideRaster ==
    /\ 0 <= win_call.x1
    /\ 0 <= win_call.y1
    /\ win_call.x2 = win_call.x1 + metadata.window_size
    /\ win_call.y2 = win_call.y1 + metadata.window_size
    /\ win_call.x2 <= shape.W
    /\ win_call.y2 <= shape.H

\* C29: for both per-AOI datasets and every index in [0, __len__()), the window
\* __getitem__ computes lies inside the raster (0 <= x1, 0 <= y1,
\* x2 = x1 + window_size <= x extent, y2 = y1 + window_size <= y extent), and
\* the timestep of SpaceNet7 lies in [0, T); rasters need not be square.
C29_WindowsLieInsideRaster ==
    /\ (/\ win_call.op = "AOIDatasetCAP.__getitem__"
        /\ win_call.outcome = "window"
        /\ win_call.index \in 0 .. CapLenValue(shape, metadata) - 1)
          => WindowInsideRaster
    /\ (/\ win_call.op = "AOIDatasetSpaceNet.__getitem__"
        /\ win_call.outcome = "window"
        /\ win_call.index \in 0 .. SnLenResult(shape, metadata).value - 1)
          => /\ WindowInsideRaster
             /\ win_call.timestep \in 0 .. shape.T - 1


\* C30: the number of examples __len__ returns, for AOIDatasetCAP and for
\* AOIDatasetSpaceNet, is never negative and is 0 whenever the window does not
\* fit on an axis (x extent < window_size or y extent < window_size), also when
\* it fits on neither.
C30_CountIsZeroWhenWindowDoesNotFit ==
    (/\ win_call.op \in {"AOIDatasetCAP.__len__", "AOIDatasetSpaceNet.__len__"}
     /\ win_call.outcome = "returned")
        => /\ win_call.value >= 0
           /\ (shape.W < metadata.window_size \/ shape.H < metadata.window_size)
                 => win_call.value = 0

====
